---- MODULE Spec2Model ----
(***************************************************************************)
(* Model of the value-searcher: the needle engine (addValue and            *)
(* #addEncodings), the haystack search (findValueIn and #findValueImpl),   *)
(* and the transformers the searcher is run with here (a hash, hex, and a  *)
(* custom character map).  A Buffer is a sequence of bytes 0..255; a       *)
(* transformer chain is a sequence of transformer names, outermost first.  *)
(* SpecNeedles runs sequences of addValue calls, Spec one search of a      *)
(* searcher that was set up, SpecConcurrent searches that overlap.         *)
(***************************************************************************)
EXTENDS Integers, Sequences, FiniteSets, TLC

(***************************************************************************)
(* Bounds of the model                                                     *)
(***************************************************************************)
MaxAdds == 2
MaxFinds == 2
MaxEncodeLayers == 2
MaxDecodeLayers == 2

(***************************************************************************)
(* Generic helpers                                                         *)
(***************************************************************************)
Range(s) == {s[i] : i \in 1..Len(s)}

\* the element of a set of one element.  The({e : x \in {d}}) is
\* LET x == d IN e with d computed once, however often e uses x.
The(S) == CHOOSE x \in S : TRUE

\* Math.min left out: the first argument is kept
Min2First(m, n) == m

Min2(m, n) == IF m <= n THEN m ELSE n

\* Math.min(...xs) over a set, starting from acc
RECURSIVE MinOver(_, _)
MinOver(acc, S) ==
    IF S = {} THEN acc
    ELSE The({The({MinOver(least, rest) : least \in {Min2(acc, x)}, rest \in {S \ {x}}}) :
                x \in {CHOOSE y \in S : TRUE}})

\* Array.prototype.flat() of a sequence of sequences
RECURSIVE Flat(_)
Flat(ss) == IF ss = <<>> THEN <<>> ELSE Head(ss) \o Flat(Tail(ss))

\* the bytes of buffer occur in haystack in order, not necessarily adjacent
RECURSIVE ScatteredIn(_, _)
ScatteredIn(haystack, buffer) ==
    IF buffer = <<>> THEN TRUE
    ELSE IF haystack = <<>> THEN FALSE
    ELSE IF Head(haystack) = Head(buffer) THEN ScatteredIn(Tail(haystack), Tail(buffer))
    ELSE ScatteredIn(Tail(haystack), buffer)

\* Buffer.prototype.includes: needle occurs as a contiguous run of haystack
Includes(haystack, buffer) ==
    \E i \in 0..(Len(haystack) - Len(buffer)) :
        SubSeq(haystack, i + 1, i + Len(buffer)) = buffer

\* the initial value of #minNeedleLength
Infinity == 1000000

(***************************************************************************)
(* crc32 of the 'crc' package: the table-driven CRC-32 (reflected          *)
(* polynomial EDB88320, initial value and final xor FFFFFFFF).  A 32-bit   *)
(* word is kept as the pair <<high 16 bits, low 16 bits>>.                 *)
(***************************************************************************)
\* bitwise xor of two 4-bit numbers, tabulated: XorNibble[a + 1][b + 1] = a ^ b
XorNibble == <<
    <<0, 1, 2, 3, 4, 5, 6, 7, 8, 9, 10, 11, 12, 13, 14, 15>>,
    <<1, 0, 3, 2, 5, 4, 7, 6, 9, 8, 11, 10, 13, 12, 15, 14>>,
    <<2, 3, 0, 1, 6, 7, 4, 5, 10, 11, 8, 9, 14, 15, 12, 13>>,
    <<3, 2, 1, 0, 7, 6, 5, 4, 11, 10, 9, 8, 15, 14, 13, 12>>,
    <<4, 5, 6, 7, 0, 1, 2, 3, 12, 13, 14, 15, 8, 9, 10, 11>>,
    <<5, 4, 7, 6, 1, 0, 3, 2, 13, 12, 15, 14, 9, 8, 11, 10>>,
    <<6, 7, 4, 5, 2, 3, 0, 1, 14, 15, 12, 13, 10, 11, 8, 9>>,
    <<7, 6, 5, 4, 3, 2, 1, 0, 15, 14, 13, 12, 11, 10, 9, 8>>,
    <<8, 9, 10, 11, 12, 13, 14, 15, 0, 1, 2, 3, 4, 5, 6, 7>>,
    <<9, 8, 11, 10, 13, 12, 15, 14, 1, 0, 3, 2, 5, 4, 7, 6>>,
    <<10, 11, 8, 9, 14, 15, 12, 13, 2, 3, 0, 1, 6, 7, 4, 5>>,
    <<11, 10, 9, 8, 15, 14, 13, 12, 3, 2, 1, 0, 7, 6, 5, 4>>,
    <<12, 13, 14, 15, 8, 9, 10, 11, 4, 5, 6, 7, 0, 1, 2, 3>>,
    <<13, 12, 15, 14, 9, 8, 11, 10, 5, 4, 7, 6, 1, 0, 3, 2>>,
    <<14, 15, 12, 13, 10, 11, 8, 9, 6, 7, 4, 5, 2, 3, 0, 1>>,
    <<15, 14, 13, 12, 11, 10, 9, 8, 7, 6, 5, 4, 3, 2, 1, 0>> >>

Xor8(p, q) ==
    16 * XorNibble[(p \div 16) + 1][(q \div 16) + 1] + XorNibble[(p % 16) + 1][(q % 16) + 1]

Xor16(p, q) == 256 * Xor8(p \div 256, q \div 256) + Xor8(p % 256, q % 256)

Xor32(w1, w2) == <<Xor16(w1[1], w2[1]), Xor16(w1[2], w2[2])>>

Shr8(w) == <<w[1] \div 256, (w[2] \div 256) + 256 * (w[1] % 256)>>

\* the lookup table of the implementation: entry n + 1 is n shifted right
\* eight times, the polynomial EDB88320 xor-ed in whenever a 1 is shifted out
CrcTable == <<
    <<0, 0>>, <<30471, 12438>>, <<60942, 24876>>, <<39177, 20922>>,
    <<1901, 50201>>, <<28778, 62607>>, <<59747, 42293>>, <<40548, 38307>>,
    <<3803, 34866>>, <<31196, 47268>>, <<57557, 59678>>, <<38866, 55688>>,
    <<2486, 19499>>, <<32433, 31933>>, <<59320, 11527>>, <<37055, 7569>>,
    <<7607, 4196>>, <<27312, 8434>>, <<62393, 29000>>, <<33982, 16862>>,
    <<6874, 54397>>, <<28125, 58603>>, <<62676, 46417>>, <<33747, 34247>>,
    <<4972, 38998>>, <<25707, 43200>>, <<64866, 63866>>, <<35429, 51692>>,
    <<5121, 23631>>, <<25350, 27865>>, <<64015, 15715>>, <<36104, 3573>>,
    <<15214, 8392>>, <<19561, 4190>>, <<54624, 16868>>, <<41575, 29042>>,
    <<15363, 58577>>, <<19204, 54343>>, <<53773, 34301>>, <<42250, 46443>>,
    <<13749, 43258>>, <<17074, 39020>>, <<56251, 51670>>, <<44220, 63808>>,
    <<13016, 27875>>, <<17887, 23669>>, <<56534, 3535>>, <<43985, 15705>>,
    <<9945, 12460>>, <<20958, 58>>, <<51415, 20864>>, <<49104, 24854>>,
    <<8628, 62645>>, <<22195, 50211>>, <<53178, 38297>>, <<47293, 42255>>,
    <<10242, 47262>>, <<24325, 34824>>, <<50700, 55730>>, <<45323, 59684>>,
    <<12143, 31879>>, <<22632, 19473>>, <<49505, 7595>>, <<46694, 11581>>,
    <<30428, 16784>>, <<475, 28934>>, <<39122, 8380>>, <<61397, 4138>>,
    <<29105, 34185>>, <<1718, 46367>>, <<40895, 58533>>, <<59576, 54323>>,
    <<30727, 51618>>, <<3840, 63796>>, <<38409, 43150>>, <<57614, 38936>>,
    <<32618, 3515>>, <<2157, 15661>>, <<37220, 27799>>, <<58979, 23553>>,
    <<27499, 20980>>, <<7276, 24930>>, <<34149, 12504>>, <<62050, 78>>,
    <<27654, 38381>>, <<6913, 42363>>, <<33288, 62657>>, <<62735, 50263>>,
    <<26032, 55750>>, <<4791, 59728>>, <<35774, 47338>>, <<64697, 34940>>,
    <<25309, 7647>>, <<5594, 11593>>, <<36051, 31987>>, <<64468, 19557>>,
    <<19890, 24920>>, <<15029, 20942>>, <<41916, 116>>, <<54459, 12514>>,
    <<19167, 42305>>, <<15832, 38359>>, <<42193, 50285>>, <<54230, 62715>>,
    <<17257, 59754>>, <<13422, 55804>>, <<44391, 34886>>, <<55904, 47312>>,
    <<17412, 11635>>, <<13059, 7653>>, <<43530, 19551>>, <<56589, 31945>>,
    <<20485, 28988>>, <<9986, 16810>>, <<48651, 4112>>, <<51468, 8326>>,
    <<22376, 46373>>, <<8303, 34227>>, <<47462, 54281>>, <<52833, 58527>>,
    <<24286, 63758>>, <<10713, 51608>>, <<45264, 38946>>, <<51159, 43188>>,
    <<22963, 15639>>, <<11956, 3457>>, <<47037, 23611>>, <<49338, 27821>>,
    <<60856, 33568>>, <<39615, 46006>>, <<950, 57868>>, <<29873, 53914>>,
    <<60117, 18233>>, <<40402, 30639>>, <<1243, 9749>>, <<29660, 5763>>,
    <<58211, 2834>>, <<37988, 15236>>, <<3437, 27198>>, <<31338, 23208>>,
    <<58382, 53003>>, <<37641, 65437>>, <<2560, 44583>>, <<32007, 40625>>,
    <<61455, 37700>>, <<34568, 41938>>, <<7681, 62056>>, <<26886, 49918>>,
    <<63330, 22365>>, <<32869, 26571>>, <<6508, 13937>>, <<28267, 1767>>,
    <<65236, 7030>>, <<35283, 11232>>, <<4314, 31322>>, <<26589, 19148>>,
    <<63929, 57199>>, <<36542, 61433>>, <<6071, 48707>>, <<24752, 36565>>,
    <<54998, 41960>>, <<41425, 37758>>, <<14552, 49860>>, <<20447, 62034>>,
    <<53691, 26609>>, <<42684, 22375>>, <<16309, 1757>>, <<18610, 13899>>,
    <<55309, 11226>>, <<44810, 6988>>, <<13827, 19190>>, <<16644, 31328>>,
    <<57184, 61379>>, <<43111, 57173>>, <<12654, 36591>>, <<18025, 48761>>,
    <<52065, 45964>>, <<48230, 33562>>, <<9583, 53920>>, <<21096, 57910>>,
    <<52236, 30613>>, <<47883, 18179>>, <<8706, 5817>>, <<21765, 9775>>,
    <<50618, 15294>>, <<45757, 2856>>, <<11188, 23186>>, <<23731, 27140>>,
    <<49879, 65447>>, <<46544, 53041>>, <<11481, 40587>>, <<23518, 44573>>,
    <<39780, 49840>>, <<60515, 61990>>, <<30058, 41884>>, <<621, 37642>>,
    <<39945, 1705>>, <<60174, 13887>>, <<29191, 26501>>, <<1280, 22291>>,
    <<38335, 19074>>, <<58040, 31252>>, <<31665, 11182>>, <<3254, 6968>>,
    <<37586, 36507>>, <<58837, 48653>>, <<31964, 61367>>, <<3035, 57121>>,
    <<34515, 53972>>, <<61908, 57922>>, <<26845, 46072>>, <<8154, 33646>>,
    <<33214, 5837>>, <<63161, 9819>>, <<28592, 30689>>, <<6327, 18295>>,
    <<34824, 23270>>, <<65295, 27248>>, <<26118, 15306>>, <<4353, 2908>>,
    <<36709, 40703>>, <<63586, 44649>>, <<24939, 65491>>, <<5740, 53061>>,
    <<40970, 57976>>, <<55053, 53998>>, <<19972, 33620>>, <<14595, 46018>>,
    <<42855, 9825>>, <<53344, 5879>>, <<18793, 18253>>, <<15982, 30683>>,
    <<44753, 27210>>, <<55766, 23260>>, <<16607, 2918>>, <<14296, 15344>>,
    <<43452, 44627>>, <<57019, 40645>>, <<18354, 53119>>, <<12469, 65513>>,
    <<48573, 61980>>, <<51898, 49802>>, <<21427, 37680>>, <<9396, 41894>>,
    <<47824, 13829>>, <<52695, 1683>>, <<21726, 22313>>, <<9177, 26559>>,
    <<45926, 31278>>, <<50273, 19128>>, <<23912, 6914>>, <<10863, 11156>>,
    <<46091, 48695>>, <<49932, 36513>>, <<23045, 57115>>, <<11522, 61325>> >>

\* one table step per byte, the running word computed before the next step
\* is taken
RECURSIVE CrcUpdate(_, _)
CrcUpdate(crc, buf) ==
    IF buf = <<>> THEN crc
    ELSE The({CrcUpdate(word, rest) :
                word \in {Xor32(CrcTable[Xor8(crc[2] % 256, Head(buf)) + 1], Shr8(crc))},
                rest \in {Tail(buf)}})

crc32(buf) ==
    The({Xor32(word, <<65535, 65535>>) :
            word \in {The({CrcUpdate(<<65535, 65535>>, bytes) : bytes \in {buf}})}})

(***************************************************************************)
(* Buffer.toString() and Buffer.from(string): UTF-8 decoding to a          *)
(* sequence of code points and encoding back.  One- and two-byte           *)
(* sequences and the three-byte sequences E1..EC/EE..EF are decoded; any   *)
(* other byte decodes to U+FFFD, as the decoder of Node does for a byte    *)
(* that starts no valid sequence.                                          *)
(***************************************************************************)
IsCont(byte) == byte >= 128 /\ byte <= 191

RECURSIVE BufToString(_)
BufToString(buf) ==
    IF buf = <<>> THEN <<>>
    ELSE LET lead == Head(buf) IN
         IF lead < 128 THEN <<lead>> \o BufToString(Tail(buf))
         ELSE IF lead >= 194 /\ lead <= 223 /\ Len(buf) >= 2 /\ IsCont(buf[2])
         THEN <<(lead - 192) * 64 + (buf[2] - 128)>> \o BufToString(SubSeq(buf, 3, Len(buf)))
         ELSE IF lead >= 225 /\ lead <= 239 /\ lead # 237 /\ Len(buf) >= 3
                 /\ IsCont(buf[2]) /\ IsCont(buf[3])
         THEN <<(lead - 224) * 4096 + (buf[2] - 128) * 64 + (buf[3] - 128)>>
                  \o BufToString(SubSeq(buf, 4, Len(buf)))
         ELSE <<65533>> \o BufToString(Tail(buf))

RECURSIVE BufFromString(_)
BufFromString(str) ==
    IF str = <<>> THEN <<>>
    ELSE LET cp == Head(str) IN
         (IF cp < 128 THEN <<cp>>
          ELSE IF cp < 2048 THEN <<192 + (cp \div 64), 128 + (cp % 64)>>
          ELSE <<224 + (cp \div 4096), 128 + ((cp \div 64) % 64), 128 + (cp % 64)>>)
         \o BufFromString(Tail(str))

(***************************************************************************)
(* HashTransform: encodings only.  The digest of node:crypto is replaced   *)
(* by a two-byte digest (one two-byte UTF-8 character) computed from the   *)
(* bytes and the length of the value.                                      *)
(***************************************************************************)
RECURSIVE DigestSum(_, _)
DigestSum(buf, i) ==
    IF buf = <<>> THEN 0
    ELSE (i + 2) * Head(buf) + DigestSum(Tail(buf), i + 1)

Digest(value) ==
    LET s == DigestSum(value, 1) + 13 * Len(value)
    IN  <<194 + (s % 30), 128 + ((s \div 30) % 64)>>

HashEncodings(value) == <<Digest(value)>>

(***************************************************************************)
(* HexTransform with the default variants {lowercase, uppercase}           *)
(***************************************************************************)
HexVariants == {"lowercase", "uppercase"}

HexDigitLower(d) == IF d < 10 THEN 48 + d ELSE 87 + d
HexDigitUpper(d) == IF d < 10 THEN 48 + d ELSE 55 + d

\* value.toString('hex').toLowerCase() / .toUpperCase()
RECURSIVE HexString(_, _)
HexString(value, upper) ==
    IF value = <<>> THEN <<>>
    ELSE LET byte == Head(value) IN
         (IF upper THEN <<HexDigitUpper(byte \div 16), HexDigitUpper(byte % 16)>>
                   ELSE <<HexDigitLower(byte \div 16), HexDigitLower(byte % 16)>>)
         \o HexString(Tail(value), upper)

HexEncodings(value) ==
    (IF "lowercase" \in HexVariants THEN <<HexString(value, FALSE)>> ELSE <<>>)
    \o (IF "uppercase" \in HexVariants THEN <<HexString(value, TRUE)>> ELSE <<>>)

IsDigit(ch) == ch >= 48 /\ ch <= 57
IsLowerHex(ch) == IsDigit(ch) \/ (ch >= 97 /\ ch <= 102)
IsUpperHex(ch) == IsDigit(ch) \/ (ch >= 65 /\ ch <= 70)
\* \w of a JavaScript regular expression without the u flag
IsWordChar(ch) == IsDigit(ch) \/ (ch >= 65 /\ ch <= 90) \/ (ch >= 97 /\ ch <= 122) \/ ch = 95

HexVal(ch) == IF IsDigit(ch) THEN ch - 48 ELSE IF ch >= 97 THEN ch - 87 ELSE ch - 55

\* Buffer.from(match, 'hex') for a match of even length
RECURSIVE HexParse(_)
HexParse(str) ==
    IF Len(str) < 2 THEN <<>>
    ELSE <<16 * HexVal(str[1]) + HexVal(str[2])>>
         \o The({HexParse(rest) : rest \in {SubSeq(str, 3, Len(str))}})

\* end of the maximal run of word characters that starts at i
RECURSIVE WordRunEnd(_, _)
WordRunEnd(str, i) ==
    IF i < Len(str) /\ IsWordChar(str[i + 1]) THEN WordRunEnd(str, i + 1) ELSE i

\* /\b(?:(?:[a-f0-9]{2})+|(?:[A-F0-9]{2})+)\b/g: both \b force a match to be a
\* whole maximal run of word characters; it must be of even length and
\* of one casing
HexMatch(run) ==
    /\ Len(run) % 2 = 0
    /\ \/ "lowercase" \in HexVariants /\ \A k \in 1..Len(run) : IsLowerHex(run[k])
       \/ "uppercase" \in HexVariants /\ \A k \in 1..Len(run) : IsUpperHex(run[k])

RECURSIVE HexScan(_, _, _)
HexScan(str, i, minLength) ==
    IF i > Len(str) THEN <<>>
    ELSE IF ~IsWordChar(str[i]) THEN HexScan(str, i + 1, minLength)
    ELSE The({The({(IF HexMatch(run) /\ Len(run) >= minLength THEN <<HexParse(run)>> ELSE <<>>)
                    \o The({HexScan(str, next, minLength) : next \in {j + 1}}) :
                        run \in {SubSeq(str, i, j)}}) :
                j \in {WordRunEnd(str, i)}})

HexExtractDecode(value, minLength) ==
    The({HexScan(str, 1, minLength) : str \in {BufToString(value)}})

(***************************************************************************)
(* CustomStringMapTransform constructed with the map {k: 'q'}              *)
(***************************************************************************)
\* the map {k: 'q'} as <<code point of the key, code point of its replacement>>
CharMap == <<107, 113>>

MapEncodings(value) ==
    LET str == BufToString(value)
    IN  <<BufFromString([i \in 1..Len(str) |->
                            IF str[i] = CharMap[1] THEN CharMap[2] ELSE str[i]])>>

MapExtractDecode(value) ==
    LET str == BufToString(value)
    IN  <<BufFromString([i \in 1..Len(str) |->
                            IF str[i] = CharMap[2] THEN CharMap[1] ELSE str[i]])>>

(***************************************************************************)
(* A second CustomStringMapTransform, constructed with the map {q: 'z'}    *)
(***************************************************************************)
CharMapQz == <<113, 122>>

MapQzEncodings(value) ==
    LET str == BufToString(value)
    IN  <<BufFromString([i \in 1..Len(str) |->
                            IF str[i] = CharMapQz[1] THEN CharMapQz[2] ELSE str[i]])>>

MapQzExtractDecode(value) ==
    LET str == BufToString(value)
    IN  <<BufFromString([i \in 1..Len(str) |->
                            IF str[i] = CharMapQz[2] THEN CharMapQz[1] ELSE str[i]])>>

(***************************************************************************)
(* CompressionTransform with formats = {'deflate-raw'}.  zlib is outside   *)
(* the repository; deflateRaw is stood in for by a run-length code that    *)
(* shares what the searcher relies on: a long repetitive value gets        *)
(* shorter, a short one longer, inflateRaw inverts deflateRaw and fails on *)
(* input that is not well formed.  A run of n equal bytes b (n <= 31)      *)
(* becomes the two bytes 8 * n, b, so that the bits 0b110 of the first     *)
(* byte, which extractDecode tests, are never both set.                    *)
(***************************************************************************)
\* the length of the run of equal bytes that value starts with, 31 at most
RECURSIVE RunLength(_)
RunLength(value) ==
    IF Len(value) = 1 \/ value[2] # value[1] THEN 1
    ELSE Min2(31, 1 + RunLength(Tail(value)))

RECURSIVE deflateRaw(_)
deflateRaw(value) ==
    IF value = <<>> THEN <<>>
    ELSE LET n == RunLength(value)
         IN  <<8 * n, value[1]>> \o deflateRaw(SubSeq(value, n + 1, Len(value)))

\* inflateRaw does not throw on value
WellFormed(value) ==
    /\ Len(value) % 2 = 0
    /\ \A i \in 1..Len(value) : i % 2 = 1 => value[i] % 8 = 0 /\ value[i] # 0

RECURSIVE inflateRaw(_)
inflateRaw(value) ==
    IF value = <<>> THEN <<>>
    ELSE [i \in 1..(value[1] \div 8) |-> value[2]] \o inflateRaw(SubSeq(value, 3, Len(value)))

CompressEncodings(value) == <<deflateRaw(value)>>

\* value.length >= 1 && (value[0] & 0b110) !== 0b110, then inflateRaw in a
\* try block whose catch ignores the error
CompressExtractDecode(value) ==
    IF Len(value) >= 1 /\ (value[1] \div 2) % 4 # 3 /\ WellFormed(value)
    THEN <<inflateRaw(value)>>
    ELSE <<>>

CompressCompressedLength(value) == Len(deflateRaw(value))

(***************************************************************************)
(* The ValueTransformer interface: which optional methods a transformer    *)
(* has, and their dispatch.  "sha256" is a HashTransform, "hex" the        *)
(* HexTransform, "map" and "mapqz" the CustomStringMapTransforms.          *)
(* "faulty" is a                                                           *)
(* ValueTransformer handed in by the caller whose extractDecode throws an  *)
(* error that it does not catch itself (the else throw err of              *)
(* UriTransform.extractDecode).  "compress" is CompressionTransform with   *)
(* the format deflate-raw alone.                                           *)
(***************************************************************************)
Transformers == {"sha256", "hex", "map", "mapqz", "faulty", "compress"}

HasEncodings(t) == t \in {"sha256", "hex", "map", "mapqz", "compress"}
HasExtractDecode(t) == t \in {"hex", "map", "mapqz", "faulty", "compress"}

\* extractDecode of t throws when it is run on value
Throws(t, value) == t = "faulty"
HasCompressedLength(t) == t = "compress"

encodings(t, value) ==
    IF t = "sha256" THEN HashEncodings(value)
    ELSE IF t = "hex" THEN HexEncodings(value)
    ELSE IF t = "compress" THEN CompressEncodings(value)
    ELSE IF t = "mapqz" THEN MapQzEncodings(value)
    ELSE MapEncodings(value)

extractDecode(t, value, minLength) ==
    IF t = "hex" THEN HexExtractDecode(value, minLength)
    ELSE IF t = "map" THEN MapExtractDecode(value)
    ELSE IF t = "mapqz" THEN MapQzExtractDecode(value)
    ELSE IF t = "compress" THEN CompressExtractDecode(value)
    ELSE <<>>

compressedLength(t, value) == CompressCompressedLength(value)

(***************************************************************************)
(* utils.ts                                                                *)
(***************************************************************************)
\* tryAdd that reports every value as newly added
tryAddAlways(set, value) == [added |-> TRUE, set |-> set \cup {value}]

\* tryAdd: the set after the call, and whether the value was newly added
tryAdd(set, value) == [added |-> value \notin set, set |-> set \cup {value}]

\* filterUniqBy over items that carry their mapped value in .checksum:
\* the items whose checksum was not in seen, in order, and seen afterwards
RECURSIVE filterUniqBy(_, _)
filterUniqBy(items, seen) ==
    IF items = <<>> THEN [items |-> <<>>, seen |-> seen]
    ELSE The({The({[items |-> (IF t.added THEN <<Head(items)>> ELSE <<>>) \o rest.items,
                    seen  |-> rest.seen] :
                        rest \in {filterUniqBy(Tail(items), t.set)}}) :
                t \in {tryAdd(seen, Head(items).checksum)}})

(***************************************************************************)
(* checkChecksumLayer: a Map from checksum to the highest layer it was     *)
(* seen at is a function on the checksums recorded so far.                 *)
(***************************************************************************)
MapSet(checksums, checksum, layer) ==
    [key \in (DOMAIN checksums) \cup {checksum} |->
        IF key = checksum THEN layer ELSE checksums[key]]

\* a candidate accepted only when nothing is recorded for it, as with a
\* Set of the fingerprints met
checkChecksumLayerOnce(checksums, thisLayer, checksum) ==
    LET accept == checksum \notin DOMAIN checksums
    IN  [accept    |-> accept,
         checksums |-> IF accept THEN MapSet(checksums, checksum, thisLayer) ELSE checksums]

\* a candidate accepted also when the recorded layer equals the current one
checkChecksumLayerAtLeast(checksums, thisLayer, checksum) ==
    LET accept == checksum \notin DOMAIN checksums \/ thisLayer >= checksums[checksum]
    IN  [accept    |-> accept,
         checksums |-> IF accept THEN MapSet(checksums, checksum, thisLayer) ELSE checksums]

\* the current layer recorded for every candidate, accepted or not
checkChecksumLayerRecordAll(checksums, thisLayer, checksum) ==
    LET accept == checksum \notin DOMAIN checksums \/ thisLayer > checksums[checksum]
    IN  [accept    |-> accept,
         checksums |-> MapSet(checksums, checksum, thisLayer)]

\* the predicate that checkChecksumLayer(checksums, thisLayer, getChecksum)
\* returns, applied to an element with that checksum
checkChecksumLayer(checksums, thisLayer, checksum) ==
    LET accept == checksum \notin DOMAIN checksums \/ thisLayer > checksums[checksum]
    IN  [accept    |-> accept,
         checksums |-> IF accept THEN MapSet(checksums, checksum, thisLayer) ELSE checksums]

\* Array.prototype.filter with that predicate, over items carrying .checksum
RECURSIVE FilterByLayer(_, _, _)
FilterByLayer(items, checksums, thisLayer) ==
    IF items = <<>> THEN [items |-> <<>>, checksums |-> checksums]
    ELSE The({The({[items     |-> (IF chk.accept THEN <<Head(items)>> ELSE <<>>) \o rest.items,
                    checksums |-> rest.checksums] :
                        rest \in {FilterByLayer(Tail(items), chk.checksums, thisLayer)}}) :
                chk \in {checkChecksumLayer(checksums, thisLayer, Head(items).checksum)}})

EmptyMap == [key \in {} |-> 0]

\* the layer of a fingerprint the map has no record of: below every layer
NoLayer == 0 - 1

\* Map.prototype.get, with NoLayer for undefined
LayerOf(checksums, checksum) ==
    IF checksum \in DOMAIN checksums THEN checksums[checksum] ELSE NoLayer

(***************************************************************************)
(* Inputs                                                                  *)
(***************************************************************************)
ValueV == <<118>>                  \* "v"
ValueKvv == <<107, 118, 118>>      \* "kvv"
ValueKq == <<107, 113>>            \* "kq"
Values == {ValueV, ValueKvv}

EncoderLists == {<<"sha256", "hex">>, <<"map", "sha256">>}
DecoderLists == {<<"sha256", "hex", "map">>}

RECURSIVE Iter(_, _, _)
\* the first encoding of transformer t applied n times
Iter(t, n, value) == IF n = 0 THEN value ELSE Iter(t, n - 1, encodings(t, value)[1])

\* haystacks built from a value
HaystacksOf(v) ==
    { v,
      Iter("hex", 1, v), Iter("hex", 2, v), Iter("hex", 3, v),
      Iter("sha256", 1, v), Iter("sha256", 2, v), Iter("sha256", 3, v),
      Iter("hex", 1, Iter("sha256", 1, v)),
      Iter("map", 1, v),
      <<59>> \o Iter("hex", 1, v) \o <<59>>,
      <<48>> \o Iter("hex", 1, v) }

Unrelated == <<122, 122>>          \* "zz"

AddInputs ==
    [value : Values, maxEncodeLayers : 0..MaxEncodeLayers,
     encoders : EncoderLists, endWithNonReversibleLayer : BOOLEAN]

(***************************************************************************)
(* State of a ValueSearcher and of the calls made on it                    *)
(***************************************************************************)
VARIABLES
    values,               \* #values
    valueChecksums,       \* #valueChecksums
    needles,              \* #needles: sequence of [buffer, transformers]
    needleChecksums,      \* #needleChecksums
    minNeedleLength,      \* #minNeedleLength
    addCalls,             \* the addValue calls made so far, with their arguments
    addedNeedleChecksums, \* the layer map of each addValue call, in call order
    addTasks,             \* #addEncodings invocations awaiting their encodings
    newEncodings,         \* newEncodings of the #addEncodings that resumed last
    finds,                \* the findValueIn calls made so far
    thrown,               \* the messages of the assertions that failed so far
    race,                 \* a raceWithCondition call on its own (see below)
    decoding              \* an extractDecode call of a CompressionTransform on its own

vars == <<values, valueChecksums, needles, needleChecksums, minNeedleLength,
          addCalls, addedNeedleChecksums, addTasks, newEncodings, finds, thrown, race,
          decoding>>

searcher == <<values, valueChecksums, needles, needleChecksums, minNeedleLength>>

\* no raceWithCondition call has been made on its own
NoRace == [tasks |-> <<>>, outcome |-> <<"none">>, allSettled |-> FALSE]

\* no extractDecode call has been made on its own
NoDecoding == [value |-> <<>>, formats |-> {}, pc |-> "none", tried |-> <<>>, yielded |-> <<>>]

Init ==
    /\ values = <<>>
    /\ valueChecksums = {}
    /\ needles = <<>>
    /\ needleChecksums = {}
    /\ minNeedleLength = Infinity
    /\ addCalls = <<>>
    /\ addedNeedleChecksums = <<>>
    /\ addTasks = {}
    /\ newEncodings = <<>>
    /\ finds = <<>>
    /\ thrown = <<>>
    /\ race = NoRace
    /\ decoding = NoDecoding

\* no call is in progress: every promise handed out has settled and no
\* losing branch is still running
Quiescent == addTasks = {} /\ \A cid \in 1..Len(finds) : finds[cid].pending = {}

(***************************************************************************)
(* addValue.  Every call has a layer map of its own, made by the default   *)
(* argument of its first #addEncodings and handed down the recursion.      *)
(***************************************************************************)
Needle(buffer, transformers) == [buffer |-> buffer, transformers |-> transformers]

WithChecksum(needle) == [needle |-> needle, checksum |-> crc32(needle.buffer)]

\* an #addEncodings invocation that has run up to its first await, where the
\* encoders are at work
AddEncodingsStart(call, needle, maxExtraLayers) ==
    [call |-> call, needle |-> needle, maxExtraLayers |-> maxExtraLayers]

\* the first #addEncodings given maxEncodeLayers itself
FirstExtraLayersAll(maxEncodeLayers) == maxEncodeLayers

\* maxExtraLayers handed to the first #addEncodings
FirstExtraLayers(maxEncodeLayers) == maxEncodeLayers - 1

\* the items put in front of the list
PushFront(list, items) == items \o list

\* Array.prototype.push(...items)
Push(list, items) == list \o items

\* encodings added only for a value that was not in #values before
AddsEncodingsIfNew(maxEncodeLayers, isNew) == maxEncodeLayers # 0 /\ isNew

\* if (maxEncodeLayers): encodings are added for already seen values too, as
\* the encoders may be different
AddsEncodings(maxEncodeLayers, isNew) == maxEncodeLayers # 0

\* the searcher and the calls in progress, as one value
SearcherState ==
    [values |-> values, valueChecksums |-> valueChecksums, needles |-> needles,
     needleChecksums |-> needleChecksums, minNeedleLength |-> minNeedleLength,
     addCalls |-> addCalls, addedNeedleChecksums |-> addedNeedleChecksums,
     addTasks |-> addTasks]

\* the #addEncodings of the call alone, those of earlier calls dropped
PendingAlone(tasks, started) == started

\* the #addEncodings of a call join those that earlier calls still await
Pending(tasks, started) == tasks \cup started

\* addValue up to its await, on the state s
AddValueStart(s, value, maxEncodeLayers, encoders, endWithNonReversibleLayer) ==
    LET needle == Needle(value, <<>>)
        newVal == filterUniqBy(<<[value |-> value, checksum |-> crc32(value)]>>,
                               s.valueChecksums)
        newNdl == filterUniqBy(<<WithChecksum(needle)>>, s.needleChecksums)
        call   == Len(s.addCalls) + 1
    IN  [values |-> Push(s.values, [i \in 1..Len(newVal.items) |-> newVal.items[i].value]),
         valueChecksums |-> newVal.seen,
         needles |-> Push(s.needles, [i \in 1..Len(newNdl.items) |-> newNdl.items[i].needle]),
         needleChecksums |-> newNdl.seen,
         minNeedleLength |-> Min2(s.minNeedleLength, Len(value)),
         addCalls |-> Append(s.addCalls,
                             [value |-> value, maxEncodeLayers |-> maxEncodeLayers,
                              encoders |-> SelectSeq(encoders, HasEncodings),
                              endWithNonReversibleLayer |-> endWithNonReversibleLayer]),
         addedNeedleChecksums |-> Append(s.addedNeedleChecksums, EmptyMap),
         addTasks |-> Pending(s.addTasks,
                              IF AddsEncodings(maxEncodeLayers, newVal.items # <<>>)
                              THEN {AddEncodingsStart(call, needle,
                                                      FirstExtraLayers(maxEncodeLayers))}
                              ELSE {})]

\* the state s becomes the state of the searcher and of its calls
Becomes(s) ==
    /\ values' = s.values
    /\ valueChecksums' = s.valueChecksums
    /\ needles' = s.needles
    /\ needleChecksums' = s.needleChecksums
    /\ minNeedleLength' = s.minNeedleLength
    /\ addCalls' = s.addCalls
    /\ addedNeedleChecksums' = s.addedNeedleChecksums
    /\ addTasks' = s.addTasks

\* one addValue call on a searcher with no call in progress
AddValue(value, maxEncodeLayers, encoders, endWithNonReversibleLayer) ==
    /\ Quiescent
    /\ Len(value) # 0
    /\ Becomes(AddValueStart(SearcherState, value, maxEncodeLayers, encoders,
                             endWithNonReversibleLayer))
    /\ newEncodings' = <<>>
    /\ UNCHANGED <<finds, thrown, race, decoding>>

\* the default of maxEncodeLayers
DefaultMaxEncodeLayers == 2

\* the transformers of a searcher made by new ValueSearcher(): of
\* defaultTransformers, the hash and the hexadecimal transform
DefaultTransformers == <<"sha256", "hex">>

\* values.map(value => searcher.addValue(Buffer.from(value))): every call
\* runs up to its await before the next one is made
RECURSIVE AddValueAll(_, _)
AddValueAll(s, list) ==
    IF list = <<>> THEN s
    ELSE The({AddValueAll(next, rest) :
                next \in {AddValueStart(s, Head(list), DefaultMaxEncodeLayers,
                                        DefaultTransformers, TRUE)},
                rest \in {Tail(list)}})

\* ValueSearcher.fromValues(...list), up to await Promise.all: a new
\* searcher with an addValue call in progress for every argument
FromValues(list) ==
    /\ addCalls = <<>>
    /\ values = <<>>
    /\ \A i \in 1..Len(list) : Len(list[i]) # 0
    /\ Becomes(AddValueAll(SearcherState, list))
    /\ newEncodings' = <<>>
    /\ UNCHANGED <<finds, thrown, race, decoding>>

\* the assertion fails after the value was pushed
AddValueThrowsLate(value) ==
    /\ Len(value) = 0
    /\ values' = Push(values, <<value>>)
    /\ thrown' = Append(thrown, "value cannot be empty")
    /\ UNCHANGED <<valueChecksums, needles, needleChecksums, minNeedleLength, addCalls,
                    addedNeedleChecksums, addTasks, newEncodings, finds, race, decoding>>

\* addValue with an empty value: assert(value.length, ...) throws first
AddValueThrows(value) ==
    /\ Len(value) = 0
    /\ thrown' = Append(thrown, "value cannot be empty")
    /\ UNCHANGED <<searcher, addCalls, addedNeedleChecksums, addTasks, newEncodings,
                    finds, race, decoding>>

(***************************************************************************)
(* #addEncodings, from the point where all encoders have delivered         *)
(***************************************************************************)
CurrentAdd == addCalls[Len(addCalls)]

\* encoders left after the last-layer filter
LayerEncoders(encoders, endWithNonReversibleLayer, maxExtraLayers) ==
    SelectSeq(encoders,
              LAMBDA t : ~(maxExtraLayers = 0 /\ endWithNonReversibleLayer
                           /\ HasExtractDecode(t)))

\* all encodings of the needle, each with the encoder put behind the chain
EncodedNeedlesAppended(encoders, needle) ==
    Flat([i \in 1..Len(encoders) |->
            LET bufs == encodings(encoders[i], needle.buffer)
            IN  [j \in 1..Len(bufs) |->
                    WithChecksum(Needle(bufs[j], Append(needle.transformers, encoders[i])))]])

\* all encodings of the needle, each with the chain extended at the front
EncodedNeedles(encoders, needle) ==
    Flat([i \in 1..Len(encoders) |->
            LET bufs == encodings(encoders[i], needle.buffer)
            IN  [j \in 1..Len(bufs) |->
                    WithChecksum(Needle(bufs[j], <<encoders[i]>> \o needle.transformers))]])

\* the selection without the chain[0] filter
SearchSetAllAdmitted(admitted, endWithNonReversibleLayer) == admitted

\* the selection with the chain[0] filter applied whatever the flag
SearchSetNonReversibleOnly(admitted, endWithNonReversibleLayer) ==
    SelectSeq(admitted, LAMBDA e : ~HasExtractDecode(e.needle.transformers[1]))

\* the children selected for #needles, before deduplication
SearchSetCandidates(admitted, endWithNonReversibleLayer) ==
    IF endWithNonReversibleLayer
    THEN SelectSeq(admitted, LAMBDA e : ~HasExtractDecode(e.needle.transformers[1]))
    ELSE admitted

\* recursion on the children whose chain[0] can be decoded, the others
\* being left as they are
RecursedReversibleOnly(admitted) ==
    SelectSeq(admitted, LAMBDA e : HasExtractDecode(e.needle.transformers[1]))

\* recursion on the children whose chain[0] cannot be decoded: those that
\* a call ending with a non-reversible layer puts on the needle list
RecursedNonReversibleOnly(admitted) ==
    SelectSeq(admitted, LAMBDA e : ~HasExtractDecode(e.needle.transformers[1]))

\* the children that #addEncodings recurses on: all newly added encoded values
RecursedEncodings(admitted) == admitted

\* the recursion given the layers of its caller
SameExtraLayers(maxExtraLayers) == maxExtraLayers

\* maxExtraLayers passed to the recursive #addEncodings
NextExtraLayers(maxExtraLayers) == maxExtraLayers - 1

AddEncodings(task) ==
    /\ task \in addTasks
    /\ \E call \in {addCalls[task.call]} :
       \E encoded \in {EncodedNeedles(LayerEncoders(call.encoders,
                                                    call.endWithNonReversibleLayer,
                                                    task.maxExtraLayers),
                                      task.needle)} :
       \E admitted \in {FilterByLayer(encoded, addedNeedleChecksums[task.call],
                                      task.maxExtraLayers)} :
       \E candidates \in {SearchSetCandidates(admitted.items, call.endWithNonReversibleLayer)} :
       \E addNdl \in {filterUniqBy(candidates, needleChecksums)} :
       \E recursed \in {RecursedEncodings(admitted.items)} :
           /\ addedNeedleChecksums' =
                  [addedNeedleChecksums EXCEPT ![task.call] = admitted.checksums]
           /\ newEncodings' = admitted.items
           /\ needles' = Push(needles, [i \in 1..Len(addNdl.items) |-> addNdl.items[i].needle])
           /\ needleChecksums' = addNdl.seen
           /\ minNeedleLength' =
                  MinOver(minNeedleLength,
                          {Len(addNdl.items[i].needle.buffer) : i \in 1..Len(addNdl.items)})
           /\ addTasks' = (addTasks \ {task}) \cup
                  (IF task.maxExtraLayers # 0
                   THEN {AddEncodingsStart(task.call, recursed[i].needle,
                                           NextExtraLayers(task.maxExtraLayers)) :
                            i \in 1..Len(recursed)}
                   ELSE {})
    /\ UNCHANGED <<values, valueChecksums, addCalls, finds, thrown, race, decoding>>

(***************************************************************************)
(* findValueIn and #findValueImpl.                                         *)
(*                                                                         *)
(* A call is [haystack, maxDecodeLayers, decoders, minEncodedLength,       *)
(* haystackChecksums, pending, status, chain, path].  pending holds the    *)
(* decoder branches (the async arrow functions handed to the outer         *)
(* raceWithCondition) whose extractDecode has not delivered yet; a branch  *)
(* is [haystack, maxDecodeLayers, decoder, minEncodedLength, prev], prev   *)
(* being the decoders                                                      *)
(* of the enclosing branches, which unshift themselves in front of the     *)
(* result on the way out.  Every race resolves with the first result that  *)
(* is not null, so the call settles with the first match made anywhere     *)
(* below it, and with null once no branch is left; branches still pending  *)
(* after a match keep running.  path records the decoders that led to the  *)
(* buffer in which the match was made.  shares is the index of the needle  *)
(* whose transformers array the result is, 0 when the result is an array   *)
(* of its own.  started counts, for every fingerprint and layer, the       *)
(* recursive searches started on a decoded buffer with that fingerprint by *)
(* a branch working at that layer.                                         *)
(***************************************************************************)
\* index of the first needle whose buffer the haystack includes, or 0
LiteralScan(haystack) ==
    IF \E i \in 1..Len(needles) : Includes(haystack, needles[i].buffer)
    THEN CHOOSE i \in 1..Len(needles) :
            /\ Includes(haystack, needles[i].buffer)
            /\ \A j \in 1..(i - 1) : ~Includes(haystack, needles[j].buffer)
    ELSE 0

\* decoding without a look at the layers left
MayDecodeAlways(maxDecodeLayers) == TRUE

\* if (maxDecodeLayers)
MayDecode(maxDecodeLayers) == maxDecodeLayers # 0

\* the recursive search given the layers of its caller
RecurseSameLayers(maxDecodeLayers) == maxDecodeLayers

\* maxDecodeLayers passed to the recursive search of a decoded buffer
RecurseLayers(maxDecodeLayers) == maxDecodeLayers - 1

\* the transformers array of the needle itself handed out as the result
MatchResultShared(hit) == [chain |-> needles[hit].transformers, shares |-> hit]

\* return [...transformers]: a new array with the elements of the chain
MatchResult(hit) == [chain |-> needles[hit].transformers, shares |-> 0]

\* #findValueImpl up to its first await: a match, or the decoder branches
FindValueImplStart(haystack, maxDecodeLayers, decoders, minEncodedLength, prev) ==
    The({
        IF hit # 0
        THEN [found |-> TRUE, chain |-> MatchResult(hit).chain,
              shares |-> MatchResult(hit).shares, branches |-> {}]
        ELSE [found |-> FALSE, chain |-> <<>>, shares |-> 0,
              branches |-> IF MayDecode(maxDecodeLayers)
                           THEN {[haystack |-> haystack, maxDecodeLayers |-> maxDecodeLayers,
                                  decoder |-> decoders[i],
                                  minEncodedLength |-> minEncodedLength, prev |-> prev] :
                                    i \in 1..Len(decoders)}
                           ELSE {}] :
        hit \in {LiteralScan(haystack)}})

\* the minimum taken over the needles alone
MinEncodedLengthOfNeedles(decoders) == minNeedleLength

\* Math.min(#minNeedleLength, ...compressedLength over the compressing decoders)
MinEncodedLength(decoders) ==
    MinOver(minNeedleLength,
            {MinOver(Infinity, {compressedLength(decoders[i], values[k]) : k \in 1..Len(values)}) :
                i \in {j \in 1..Len(decoders) :
                          HasExtractDecode(decoders[j]) /\ HasCompressedLength(decoders[j])}})

\* the call as the first #findValueImpl leaves it, with a fresh layer map
StartCall(haystack, maxDecodeLayers, decoders, minEncodedLength) ==
    LET start == FindValueImplStart(haystack, maxDecodeLayers, decoders, minEncodedLength, <<>>)
    IN  [haystack          |-> haystack,
         maxDecodeLayers   |-> maxDecodeLayers,
         decoders          |-> decoders,
         minEncodedLength  |-> minEncodedLength,
         haystackChecksums |-> EmptyMap,
         pending           |-> start.branches,
         status            |-> IF start.found THEN "found"
                               ELSE IF start.branches = {} THEN "null"
                               ELSE "running",
         chain             |-> start.chain,
         shares            |-> start.shares,
         path              |-> <<>>,
         started           |-> EmptyMap]

FindValueIn(haystack, maxDecodeLayers, decoderList) ==
    /\ addTasks = {}
    /\ Len(values) # 0
    /\ finds' = Append(finds, StartCall(haystack, maxDecodeLayers,
                                        SelectSeq(decoderList, HasExtractDecode),
                                        MinEncodedLength(decoderList)))
    /\ UNCHANGED <<searcher, addCalls, addedNeedleChecksums, addTasks, newEncodings,
                    thrown, race, decoding>>

\* findValueIn on a searcher without values: assert(this.#values.length, ...)
\* throws first
FindValueInThrows(haystack, maxDecodeLayers, decoderList) ==
    /\ Len(values) = 0
    /\ thrown' = Append(thrown, "call addValue first")
    /\ UNCHANGED <<searcher, addCalls, addedNeedleChecksums, addTasks, newEncodings,
                    finds, race, decoding>>

\* index of the first recursive search that matched, or 0
FirstFound(children) ==
    IF \E i \in 1..Len(children) : children[i].found
    THEN CHOOSE i \in 1..Len(children) :
            children[i].found /\ \A j \in 1..(i - 1) : ~children[j].found
    ELSE 0

\* the result passed on without the decoder in front
UnshiftNothing(decoder, res) == res

\* the decoder put behind the result
UnshiftBehind(decoder, res) == Append(res, decoder)

\* res?.unshift(decoder)
Unshift(decoder, res) == <<decoder>> \o res

\* the unshifts of the enclosing branches, innermost first
RECURSIVE UnshiftAll(_, _)
UnshiftAll(prev, res) ==
    IF prev = <<>> THEN res ELSE Unshift(Head(prev), UnshiftAll(Tail(prev), res))

\* the failed branch taken as one that found nothing
OnThrowNull(call, branch) ==
    LET pending == call.pending \ {branch}
    IN  [call EXCEPT !.pending = pending,
                     !.status = IF call.status = "running" /\ pending = {}
                                THEN "null" ELSE call.status]

\* the call after extractDecode has thrown in one of its decoder branches:
\* the async arrow function rejects, the catch block of every enclosing
\* raceWithCondition calls reject(err), and the promise of findValueIn
\* rejects unless it has resolved before
OnThrow(call, branch) ==
    [call EXCEPT !.pending = call.pending \ {branch},
                 !.status = IF call.status = "running" THEN "rejected" ELSE call.status]

\* the recursive searches counted: one #findValueImpl for every item that
\* passed the filter, at the layer the filter was given
StartedAfter(started, items, thisLayer) ==
    LET keys     == {<<items[i].checksum, thisLayer>> : i \in 1..Len(items)}
        count(k) == Cardinality({i \in 1..Len(items) : <<items[i].checksum, thisLayer>> = k})
    IN  [k \in DOMAIN started \cup keys |->
            (IF k \in DOMAIN started THEN started[k] ELSE 0) + count(k)]

\* the call after one of its decoder branches has resumed with the decoded
\* values; checksums is the layer map the branch works on
BranchStep(call, branch, checksums) ==
    IF Throws(branch.decoder, branch.haystack) THEN OnThrow(call, branch) ELSE
    The({The({The({The({
    LET prev     == Append(branch.prev, branch.decoder)
        first    == FirstFound(children)
        pending  == (call.pending \ {branch}) \cup
                    UNION {children[i].branches : i \in 1..Len(children)}
        settles  == call.status = "running" /\ first # 0
    IN  [call EXCEPT
            !.haystackChecksums = accepted.checksums,
            !.started = StartedAfter(call.started, accepted.items, branch.maxDecodeLayers),
            !.pending = pending,
            !.status = IF call.status # "running" THEN call.status
                       ELSE IF first # 0 THEN "found"
                       ELSE IF pending = {} THEN "null"
                       ELSE "running",
            !.chain = IF settles THEN UnshiftAll(prev, children[first].chain) ELSE call.chain,
            !.shares = IF settles THEN children[first].shares ELSE call.shares,
            !.path = IF settles THEN prev ELSE call.path] :
      children \in {[i \in 1..Len(accepted.items) |->
                       FindValueImplStart(accepted.items[i].buffer,
                                          RecurseLayers(branch.maxDecodeLayers),
                                          call.decoders, branch.minEncodedLength,
                                          Append(branch.prev, branch.decoder))]}}) :
      accepted \in {FilterByLayer(offered, checksums, branch.maxDecodeLayers)}}) :
      offered  \in {[i \in 1..Len(decoded) |->
                       [buffer |-> decoded[i], checksum |-> crc32(decoded[i])]]}}) :
      decoded  \in {extractDecode(branch.decoder, branch.haystack, branch.minEncodedLength)}})

\* one layer map for all calls: every call sees what any call recorded
SharedHaystackChecksums(cid) ==
    LET holders(key) == {c \in 1..Len(finds) : key \in DOMAIN finds[c].haystackChecksums}
        layers(key)  == {finds[c].haystackChecksums[key] : c \in holders(key)}
    IN  [key \in UNION {DOMAIN finds[c].haystackChecksums : c \in 1..Len(finds)} |->
            CHOOSE layer \in layers(key) : \A other \in layers(key) : other <= layer]

\* the layer map of call cid: the Map created by the default parameter of
\* its first #findValueImpl and handed down to every recursive search
HaystackChecksumsOf(cid) == finds[cid].haystackChecksums

\* unshift writes to the array it is called on: the needle list after the
\* branch has put its decoders in front of the result
NeedlesAfterUnshift(call) ==
    IF call.shares # 0 /\ call.path # <<>>
    THEN [needles EXCEPT ![call.shares].transformers = call.chain]
    ELSE needles

DecoderBranch(cid, branch) ==
    /\ cid \in 1..Len(finds)
    /\ branch \in finds[cid].pending
    /\ \E call \in {BranchStep(finds[cid], branch, HaystackChecksumsOf(cid))} :
           /\ finds' = [finds EXCEPT ![cid] = call]
           /\ needles' = NeedlesAfterUnshift(call)
    /\ UNCHANGED <<values, valueChecksums, needleChecksums, minNeedleLength, addCalls,
                    addedNeedleChecksums, addTasks, newEncodings, thrown, race, decoding>>

(***************************************************************************)
(* raceWithCondition on its own.                                           *)
(*                                                                         *)
(* race is [tasks, outcome, allSettled].  A task is one element of         *)
(* promises with the async arrow function mapped over it: state and result *)
(* are those of the promise ("pending", or "fulfilled" / "rejected" with   *)
(* the value or the error), pc is the position of the arrow function:      *)
(* "awaitP" at const res = await p, "awaitCond" at await condition(res),   *)
(* "done" once it has returned.  outcome is the state of the promise that  *)
(* raceWithCondition returns; allSettled tells that the callback of        *)
(* Promise.allSettled(...).then has run.                                   *)
(***************************************************************************)
MaxRaceTasks == 3

\* what a promise may deliver: a result that fails the condition, two that
\* satisfy it, and a failure
Results == {"null", "a", "b"}

Failure == "err"

\* the elements of promises: promises still pending, and values or promises
\* settled already
PromiseInputs ==
    {[state |-> "pending", result |-> "none"]}
        \cup {[state |-> "fulfilled", result |-> r] : r \in Results}
        \cup {[state |-> "rejected", result |-> Failure]}

\* r => !!r
condition(res) == res # "null"

\* a later call replaces what an earlier call has settled
resolveAgain(outcome, value) == <<"resolved", value>>

\* resolve(value): calling resolve/reject multiple times does not do anything
resolve(outcome, value) ==
    IF outcome = <<"pending">> THEN <<"resolved", value>> ELSE outcome

\* the failure swallowed
rejectIgnored(outcome, err) == outcome

\* reject(err)
reject(outcome, err) ==
    IF outcome = <<"pending">> THEN <<"rejected", err>> ELSE outcome

RaceWithCondition(promises) ==
    /\ race = NoRace
    /\ race' = [tasks      |-> [i \in 1..Len(promises) |->
                                  [state |-> promises[i].state, result |-> promises[i].result,
                                   pc |-> "awaitP"]],
                outcome    |-> <<"pending">>,
                allSettled |-> FALSE]
    /\ UNCHANGED <<searcher, addCalls, addedNeedleChecksums, addTasks, newEncodings,
                    finds, thrown, decoding>>

\* a pending promise settles: it is fulfilled with a result, or rejected
PromiseSettles(i, state, result) ==
    /\ i \in 1..Len(race.tasks)
    /\ race.tasks[i].state = "pending"
    /\ race' = [race EXCEPT !.tasks[i].state = state, !.tasks[i].result = result]
    /\ UNCHANGED <<searcher, addCalls, addedNeedleChecksums, addTasks, newEncodings,
                    finds, thrown, decoding>>

\* the arrow function resumes from await p: with the result, or in its
\* catch block
AwaitPromise(i) ==
    /\ i \in 1..Len(race.tasks)
    /\ race.tasks[i].pc = "awaitP"
    /\ race.tasks[i].state # "pending"
    /\ race' = IF race.tasks[i].state = "rejected"
               THEN [race EXCEPT !.tasks[i].pc = "done",
                                 !.outcome = reject(race.outcome, race.tasks[i].result)]
               ELSE [race EXCEPT !.tasks[i].pc = "awaitCond"]
    /\ UNCHANGED <<searcher, addCalls, addedNeedleChecksums, addTasks, newEncodings,
                    finds, thrown, decoding>>

\* the arrow function resumes from await condition(res) and returns
AwaitCondition(i) ==
    /\ i \in 1..Len(race.tasks)
    /\ race.tasks[i].pc = "awaitCond"
    /\ race' = [race EXCEPT
                    !.tasks[i].pc = "done",
                    !.outcome = IF condition(race.tasks[i].result)
                                THEN resolve(race.outcome, race.tasks[i].result)
                                ELSE race.outcome]
    /\ UNCHANGED <<searcher, addCalls, addedNeedleChecksums, addTasks, newEncodings,
                    finds, thrown, decoding>>

\* one arrow function has returned
AnyReturned(tasks) == \E i \in 1..Len(tasks) : tasks[i].pc = "done"

\* Promise.allSettled: every arrow function has returned
AllReturned(tasks) == \A i \in 1..Len(tasks) : tasks[i].pc = "done"

\* .then(() => resolve(undefined))
AllSettled ==
    /\ race # NoRace
    /\ ~race.allSettled
    /\ AllReturned(race.tasks)
    /\ race' = [race EXCEPT !.allSettled = TRUE,
                            !.outcome = resolve(race.outcome, "undefined")]
    /\ UNCHANGED <<searcher, addCalls, addedNeedleChecksums, addTasks, newEncodings,
                    finds, thrown, decoding>>

(***************************************************************************)
(* CompressionTransform.extractDecode on its own, for any set of formats.  *)
(*                                                                         *)
(* decoding is [value, formats, pc, tried, yielded]: pc is the position of *)
(* the generator ("unzip", "inflateRaw", "brotli" before the respective if *)
(* statement, "done" once it has returned), tried the zlib functions       *)
(* called so far and yielded the functions whose output was yielded, both  *)
(* in order.  zlib is outside the repository: whether a function decodes   *)
(* the value or throws is left open.                                       *)
(***************************************************************************)
Formats == {"gzip", "deflate", "deflate-raw", "brotli"}

\* value.readUInt16BE()
ReadUInt16BE(value) == 256 * value[1] + value[2]

\* the condition of the first if statement; 8075 is 0x1f8b
UnzipCondition(value, formats) ==
    \/ "gzip" \in formats /\ Len(value) > 10 /\ ReadUInt16BE(value) = 8075
    \/ "deflate" \in formats /\ Len(value) > 2 /\ ReadUInt16BE(value) % 31 = 0

\* the test on the first byte with all of its low three bits taken
InflateRawConditionLowThree(value, formats) ==
    "deflate-raw" \in formats /\ Len(value) >= 1 /\ value[1] % 8 # 6

\* the condition of the second if statement: (value[0] & 0b110) !== 0b110
InflateRawCondition(value, formats) ==
    "deflate-raw" \in formats /\ Len(value) >= 1 /\ (value[1] \div 2) % 4 # 3

\* the condition of the third if statement
BrotliCondition(value, formats) == "brotli" \in formats

\* extractDecode(value) of a CompressionTransform constructed with formats,
\* up to the first if statement
CompressionExtractDecode(value, formats) ==
    /\ decoding = NoDecoding
    /\ decoding' = [value |-> value, formats |-> formats, pc |-> "unzip",
                    tried |-> <<>>, yielded |-> <<>>]
    /\ UNCHANGED <<searcher, addCalls, addedNeedleChecksums, addTasks, newEncodings,
                    finds, thrown, race>>

\* the generator after zlib function fn has been called at position pc:
\* its output is yielded, or its error is caught and ignored
Attempt(fn, ok, next) ==
    [decoding EXCEPT !.tried = Append(@, fn),
                     !.yielded = IF ok THEN Append(@, fn) ELSE @,
                     !.pc = next]

\* the first if statement: return after the yield, fall through otherwise
TryUnzip ==
    /\ decoding.pc = "unzip"
    /\ \/ /\ UnzipCondition(decoding.value, decoding.formats)
          /\ \E ok \in BOOLEAN :
                decoding' = Attempt("unzip", ok, IF ok THEN "done" ELSE "inflateRaw")
       \/ /\ ~UnzipCondition(decoding.value, decoding.formats)
          /\ decoding' = [decoding EXCEPT !.pc = "inflateRaw"]
    /\ UNCHANGED <<searcher, addCalls, addedNeedleChecksums, addTasks, newEncodings,
                    finds, thrown, race>>

\* the second if statement
TryInflateRaw ==
    /\ decoding.pc = "inflateRaw"
    /\ \/ /\ InflateRawCondition(decoding.value, decoding.formats)
          /\ \E ok \in BOOLEAN : decoding' = Attempt("inflateRaw", ok, "brotli")
       \/ /\ ~InflateRawCondition(decoding.value, decoding.formats)
          /\ decoding' = [decoding EXCEPT !.pc = "brotli"]
    /\ UNCHANGED <<searcher, addCalls, addedNeedleChecksums, addTasks, newEncodings,
                    finds, thrown, race>>

\* the third if statement
TryBrotli ==
    /\ decoding.pc = "brotli"
    /\ \/ /\ BrotliCondition(decoding.value, decoding.formats)
          /\ \E ok \in BOOLEAN : decoding' = Attempt("brotliDecompress", ok, "done")
       \/ /\ ~BrotliCondition(decoding.value, decoding.formats)
          /\ decoding' = [decoding EXCEPT !.pc = "done"]
    /\ UNCHANGED <<searcher, addCalls, addedNeedleChecksums, addTasks, newEncodings,
                    finds, thrown, race>>

(***************************************************************************)
(* Specifications                                                          *)
(***************************************************************************)
\* SpecNeedles: any sequence of addValue calls
NextNeedles ==
    \/ \E input \in AddInputs :
            /\ Len(addCalls) < MaxAdds
            /\ AddValue(input.value, input.maxEncodeLayers, input.encoders,
                        input.endWithNonReversibleLayer)
    \/ \E task \in addTasks : AddEncodings(task)

SpecNeedles == Init /\ [][NextNeedles]_vars

\* a call that adds the value alone
RawInputs ==
    {input \in AddInputs : /\ input.maxEncodeLayers = 0
                           /\ input.encoders = <<"sha256", "hex">>
                           /\ input.endWithNonReversibleLayer}

SetupInputs == {input \in AddInputs : input.maxEncodeLayers # 0} \cup RawInputs

\* haystacks offered to findValueIn: built from the values added so far
Haystacks == UNION {HaystacksOf(values[k]) : k \in 1..Len(values)} \cup {Unrelated}

\* Spec: a searcher is set up with one addValue call of any kind, possibly
\* followed by calls that add a value alone, and is then searched once
Next ==
    \/ \E input \in (IF addCalls = <<>> THEN SetupInputs ELSE RawInputs) :
            /\ Len(addCalls) < MaxAdds
            /\ finds = <<>>
            /\ AddValue(input.value, input.maxEncodeLayers, input.encoders,
                        input.endWithNonReversibleLayer)
    \/ \E task \in addTasks : AddEncodings(task)
    \/ \E haystack \in Haystacks, maxDecodeLayers \in 0..MaxDecodeLayers,
          decoders \in DecoderLists :
            /\ finds = <<>>
            /\ FindValueIn(haystack, maxDecodeLayers, decoders)
    \/ \E cid \in 1..Len(finds) : \E branch \in finds[cid].pending :
            DecoderBranch(cid, branch)

Spec == Init /\ [][Next]_vars

\* SpecFair: one addValue call and then one findValueIn call, with every
\* continuation that is ready run in the end, as the job queue does once
\* the transformers have delivered
FairInputs ==
    {input \in AddInputs : /\ input.value = ValueV
                           /\ input.maxEncodeLayers # 0
                           /\ input.encoders = <<"sha256", "hex">>}

FairHaystacks ==
    {Iter("hex", 2, ValueV), Iter("hex", 3, ValueV), Iter("hex", 1, Iter("sha256", 1, ValueV)),
     <<59>> \o Iter("hex", 1, ValueV) \o <<59>>}

\* a continuation of a call in progress
Resume ==
    \/ \E task \in addTasks : AddEncodings(task)
    \/ \E cid \in 1..Len(finds) : \E branch \in finds[cid].pending :
            DecoderBranch(cid, branch)

NextFair ==
    \/ \E input \in FairInputs :
            /\ addCalls = <<>>
            /\ AddValue(input.value, input.maxEncodeLayers, input.encoders,
                        input.endWithNonReversibleLayer)
    \/ \E haystack \in FairHaystacks, maxDecodeLayers \in 0..MaxDecodeLayers,
          decoders \in DecoderLists :
            /\ finds = <<>>
            /\ FindValueIn(haystack, maxDecodeLayers, decoders)
    \/ Resume

SpecFair == Init /\ [][NextFair]_vars /\ WF_vars(Resume)

\* SpecDecoding: one extractDecode call of a CompressionTransform, for any
\* non-empty set of formats (the constructor asserts formats.size) and values
\* of several lengths and headers
FormatSets == (SUBSET Formats) \ {{}}

\* first bytes: 0x1f, 0x78, and bytes with the low bits 000, 011, 110, 111
FirstBytes == {31, 120, 0, 3, 6, 7}

\* second bytes: 0x8b, 0x9c (0x789c is 31 * 996) and 0
SecondBytes == {139, 156, 0}

\* the header followed by zero bytes up to length n
Padded(header, n) == header \o [i \in 1..(n - Len(header)) |-> 0]

DecodingValues ==
    {<<>>} \cup {<<first>> : first \in FirstBytes}
    \cup {Padded(<<first, second>>, n) :
            first \in FirstBytes, second \in SecondBytes, n \in {2, 3, 11}}

NextDecoding ==
    \/ \E value \in DecodingValues, formats \in FormatSets :
            CompressionExtractDecode(value, formats)
    \/ TryUnzip
    \/ TryInflateRaw
    \/ TryBrotli

SpecDecoding == Init /\ [][NextDecoding]_vars

\* SpecDeep: one addValue call with three layers of two string maps and
\* the hash, whose encodings meet again at different depths
DeepInputs ==
    [value : {ValueKq}, maxEncodeLayers : {MaxEncodeLayers + 1},
     encoders : {<<"map", "mapqz", "sha256">>}, endWithNonReversibleLayer : BOOLEAN]

NextDeep ==
    \/ \E input \in DeepInputs :
            /\ addCalls = <<>>
            /\ AddValue(input.value, input.maxEncodeLayers, input.encoders,
                        input.endWithNonReversibleLayer)
    \/ \E task \in addTasks : AddEncodings(task)

SpecDeep == Init /\ [][NextDeep]_vars

\* SpecFromValues: a searcher made by fromValues, or by addValue calls with
\* the same arguments awaited one after another
ValueLists ==
    {<<value>> : value \in Values} \cup {<<first, second>> : first, second \in Values}

NextFromValues ==
    \/ \E list \in ValueLists : FromValues(list)
    \/ \E value \in Values :
            /\ Len(addCalls) < MaxAdds
            /\ AddValue(value, DefaultMaxEncodeLayers, DefaultTransformers, TRUE)
    \/ \E task \in addTasks : AddEncodings(task)

SpecFromValues == Init /\ [][NextFromValues]_vars

\* SpecConcurrent: one addValue call, then findValueIn calls that may be
\* started while earlier ones are still running
ConcurrentInputs ==
    {input \in SetupInputs : input.value = ValueV /\ input.encoders = <<"sha256", "hex">>}

ConcurrentHaystacks ==
    {Iter("hex", 1, ValueV), Iter("hex", 2, ValueV), Iter("hex", 1, Iter("sha256", 1, ValueV))}

NextConcurrent ==
    \/ \E input \in ConcurrentInputs :
            /\ addCalls = <<>>
            /\ AddValue(input.value, input.maxEncodeLayers, input.encoders,
                        input.endWithNonReversibleLayer)
    \/ \E task \in addTasks : AddEncodings(task)
    \/ \E haystack \in ConcurrentHaystacks, maxDecodeLayers \in 1..MaxDecodeLayers,
          decoders \in DecoderLists :
            /\ Len(finds) < MaxFinds
            /\ FindValueIn(haystack, maxDecodeLayers, decoders)
    \/ \E cid \in 1..Len(finds) : \E branch \in finds[cid].pending :
            DecoderBranch(cid, branch)

SpecConcurrent == Init /\ [][NextConcurrent]_vars

\* SpecLifecycle: addValue and findValueIn calls in any order, calls that
\* break the contract among them
MaxThrown == 2

LifecycleInputs ==
    {input \in AddInputs : /\ input.maxEncodeLayers \in {0, 1}
                           /\ input.endWithNonReversibleLayer
                           /\ input.encoders = <<"sha256", "hex">>}

LifecycleHaystacks ==
    {Iter("hex", 1, ValueV), Iter("hex", 1, Iter("sha256", 1, ValueV)), Iter("hex", 1, ValueKvv)}

NextLifecycle ==
    \/ \E input \in LifecycleInputs :
            /\ Len(addCalls) < MaxAdds
            /\ AddValue(input.value, input.maxEncodeLayers, input.encoders,
                        input.endWithNonReversibleLayer)
    \/ \E task \in addTasks : AddEncodings(task)
    \/ \E haystack \in LifecycleHaystacks, maxDecodeLayers \in 0..1, decoders \in DecoderLists :
            /\ Len(finds) < MaxFinds
            /\ FindValueIn(haystack, maxDecodeLayers, decoders)
    \/ \E cid \in 1..Len(finds) : \E branch \in finds[cid].pending :
            DecoderBranch(cid, branch)
    \/ Len(thrown) < MaxThrown /\ AddValueThrows(<<>>)
    \/ \E haystack \in LifecycleHaystacks, decoders \in DecoderLists :
            /\ Len(thrown) < MaxThrown
            /\ FindValueInThrows(haystack, MaxDecodeLayers, decoders)

SpecLifecycle == Init /\ [][NextLifecycle]_vars

\* the collections of at most n elements of PromiseInputs
RECURSIVE PromiseLists(_)
PromiseLists(n) ==
    IF n = 0 THEN {<<>>}
    ELSE LET shorter == PromiseLists(n - 1)
         IN  shorter \cup {Append(list, p) : list \in shorter, p \in PromiseInputs}

\* SpecRace: one raceWithCondition call on promises that settle in any order
NextRace ==
    \/ \E promises \in PromiseLists(MaxRaceTasks) : RaceWithCondition(promises)
    \/ \E i \in 1..Len(race.tasks) :
            \/ \E r \in Results : PromiseSettles(i, "fulfilled", r)
            \/ PromiseSettles(i, "rejected", Failure)
    \/ \E i \in 1..Len(race.tasks) : AwaitPromise(i)
    \/ \E i \in 1..Len(race.tasks) : AwaitCondition(i)
    \/ AllSettled

SpecRace == Init /\ [][NextRace]_vars

\* SpecRaceFair: SpecRace with the job queue running every continuation
\* that is ready: an arrow function whose promise has settled, and the
\* callback of Promise.allSettled(...).then; promises may stay pending
Continue ==
    \/ \E i \in 1..Len(race.tasks) : AwaitPromise(i)
    \/ \E i \in 1..Len(race.tasks) : AwaitCondition(i)
    \/ AllSettled

SpecRaceFair == Init /\ [][NextRace]_vars /\ WF_vars(Continue)

\* SpecFailure: one addValue call, then a search with a decoder that throws
\* among the decoders
FailureDecoderLists == {<<"faulty", "hex">>, <<"hex", "map", "faulty">>}

NextFailure ==
    \/ \E input \in ConcurrentInputs :
            /\ addCalls = <<>>
            /\ AddValue(input.value, input.maxEncodeLayers, input.encoders,
                        input.endWithNonReversibleLayer)
    \/ \E task \in addTasks : AddEncodings(task)
    \/ \E haystack \in ConcurrentHaystacks \cup {ValueV},
          maxDecodeLayers \in 0..MaxDecodeLayers, decoders \in FailureDecoderLists :
            /\ finds = <<>>
            /\ FindValueIn(haystack, maxDecodeLayers, decoders)
    \/ \E cid \in 1..Len(finds) : \E branch \in finds[cid].pending :
            DecoderBranch(cid, branch)

SpecFailure == Init /\ [][NextFailure]_vars

\* SpecCompress: values that compress well are added, and haystacks with
\* their compressed forms are searched with a decompressing decoder
ValueRun == [i \in 1..8 |-> 118]          \* "vvvvvvvv"

ValueRuns == [i \in 1..6 |-> IF i <= 3 THEN 107 ELSE 118]          \* "kkkvvv"

CompressInputs ==
    [value : {ValueRun, ValueRuns}, maxEncodeLayers : {0, 1},
     encoders : {<<"compress", "hex">>}, endWithNonReversibleLayer : BOOLEAN]

CompressDecoderLists == {<<"hex", "compress">>, <<"hex", "map">>}

CompressHaystacks ==
    UNION {{Iter("hex", 1, Iter("compress", 1, values[k])),
            Iter("compress", 1, values[k]),
            Iter("hex", 1, values[k]),
            Iter("hex", 2, Iter("compress", 1, values[k]))} : k \in 1..Len(values)}

NextCompress ==
    \/ \E input \in CompressInputs :
            /\ Len(addCalls) < MaxAdds
            /\ finds = <<>>
            /\ AddValue(input.value, input.maxEncodeLayers, input.encoders,
                        input.endWithNonReversibleLayer)
    \/ \E task \in addTasks : AddEncodings(task)
    \/ \E haystack \in CompressHaystacks, maxDecodeLayers \in 0..MaxDecodeLayers,
          decoders \in CompressDecoderLists :
            /\ finds = <<>>
            /\ FindValueIn(haystack, maxDecodeLayers, decoders)
    \/ \E cid \in 1..Len(finds) : \E branch \in finds[cid].pending :
            DecoderBranch(cid, branch)

SpecCompress == Init /\ [][NextCompress]_vars

(***************************************************************************)
(* Notions the properties are stated with                                  *)
(***************************************************************************)
\* form occurs in buffer as a contiguous run of bytes
Occurs(form, buffer) ==
    \E first \in 1..(Len(buffer) - Len(form) + 1) :
        SubSeq(buffer, first, first + Len(form) - 1) = form

\* the buffers that at most n nested decoder applications produce from the
\* haystack, each with the decoders applied to reach it, outermost first
RECURSIVE DecodeReach(_, _, _, _)
DecodeReach(haystack, n, decoders, minLength) ==
    {[buffer |-> haystack, path |-> <<>>]} \cup
    (IF n = 0 THEN {}
     ELSE UNION {
            LET decoded == extractDecode(decoders[i], haystack, minLength)
            IN  UNION { {[buffer |-> r.buffer, path |-> <<decoders[i]>> \o r.path] :
                            r \in DecodeReach(decoded[j], n - 1, decoders, minLength)} :
                        j \in 1..Len(decoded) } :
            i \in 1..Len(decoders) })

\* the buffers that the encoders of a chain (outermost first) make of a value
RECURSIVE EncodedForms(_, _)
EncodedForms(value, chain) ==
    IF chain = <<>> THEN {value}
    ELSE UNION {Range(encodings(Head(chain), inner)) : inner \in EncodedForms(value, Tail(chain))}

\* the value and its encoded forms of up to n encoder applications
RECURSIVE AllEncodedForms(_, _, _)
AllEncodedForms(value, n, encoders) ==
    {value} \cup
    (IF n = 0 THEN {}
     ELSE UNION {UNION {AllEncodedForms(enc, n - 1, encoders) :
                            enc \in Range(encodings(encoders[i], value))} :
                 i \in 1..Len(encoders)})

\* the buffers left after decoding with the transformers of a chain, the
\* last of the chain first; a transformer without extractDecode decodes nothing
RECURSIVE DecodeAlong(_, _)
DecodeAlong(buffers, chain) ==
    IF chain = <<>> THEN buffers
    ELSE LET t == chain[Len(chain)]
         IN  DecodeAlong(UNION {IF HasExtractDecode(t) THEN Range(extractDecode(t, buf, 0)) ELSE {} :
                                    buf \in buffers},
                         SubSeq(chain, 1, Len(chain) - 1))

\* the results a call can settle with when it runs with no other call
RECURSIVE SoloRun(_)
SoloRun(call) ==
    IF call.status # "running" THEN {<<call.status, call.chain>>}
    ELSE UNION {SoloRun(BranchStep(call, branch, call.haystackChecksums)) :
                    branch \in call.pending}

\* the largest maxEncodeLayers the value was added with
LayersOf(value) ==
    LET given == {addCalls[k].maxEncodeLayers : k \in {j \in 1..Len(addCalls) : addCalls[j].value = value}}
    IN  CHOOSE n \in given : \A m \in given : m <= n

(***************************************************************************)
(* Properties                                                              *)
(***************************************************************************)
\* C1, as amended: a chain that findValueIn returns splits into decoders
\* d1..dj and a needle chain e1..em such that decoding the haystack with
\* d1, then d2, ... then dj (at most maxDecodeLayers of them) yields a buffer
\* that contains the buffer of a needle with chain e1..em, and that buffer is
\* what the encoders em, ..., e1 make of an added value
C1_ChainSound ==
    \A cid \in 1..Len(finds) :
        LET f == finds[cid] IN
        f.status = "found" =>
            \E j \in 0..Len(f.chain) :
            \E r \in DecodeReach(f.haystack, f.maxDecodeLayers, f.decoders, f.minEncodedLength) :
                /\ r.path = SubSeq(f.chain, 1, j)
                /\ \E i \in 1..Len(needles) :
                    /\ needles[i].transformers = SubSeq(f.chain, j + 1, Len(f.chain))
                    /\ Occurs(needles[i].buffer, r.buffer)
                    /\ \E k \in 1..Len(values) :
                        needles[i].buffer \in EncodedForms(values[k], needles[i].transformers)

\* a match made in a decoded buffer on a needle that is an encoded value
C1_Witness ==
    \E cid \in 1..Len(finds) :
        /\ finds[cid].status = "found"
        /\ finds[cid].path # <<>>
        /\ Len(finds[cid].chain) > Len(finds[cid].path)

\* C1, as stated: decoding the haystack with ck, then c(k-1), ... then c1 of
\* the returned chain yields a buffer that contains an added value
C1_AsStated ==
    \A cid \in 1..Len(finds) :
        LET f == finds[cid] IN
        f.status = "found" =>
            \E buf \in DecodeAlong({f.haystack}, f.chain) :
            \E k \in 1..Len(values) : Occurs(values[k], buf)

\* C2: a findValueIn call that runs while other calls run settles with a
\* result that the same call settles with when it runs alone
C2_SameAsAlone ==
    \A cid \in 1..Len(finds) :
        LET f == finds[cid] IN
        f.status # "running" =>
            <<f.status, f.chain>> \in
                SoloRun(StartCall(f.haystack, f.maxDecodeLayers, f.decoders, f.minEncodedLength))

\* two calls have both matched after decoding the same buffer, and both
\* still have branches running
C2_Witness ==
    /\ Len(finds) = 2
    /\ \A cid \in 1..2 : finds[cid].status = "found" /\ finds[cid].pending # {}
    /\ (DOMAIN finds[1].haystackChecksums) \cap (DOMAIN finds[2].haystackChecksums) # {}

\* some encoded form of an added value (of up to the maxEncodeLayers it was
\* added with) occurs in a buffer within maxDecodeLayers decodes of the haystack
Present(f) ==
    \E r \in DecodeReach(f.haystack, f.maxDecodeLayers, f.decoders, 0) :
    \E k \in 1..Len(addCalls) :
    \E form \in AllEncodedForms(addCalls[k].value, addCalls[k].maxEncodeLayers,
                                addCalls[k].encoders) :
        Occurs(form, r.buffer)

\* C3: when no encoded form of an added value occurs in the haystack or in
\* a buffer within maxDecodeLayers decodes of it, findValueIn does not return
\* a chain, and returns null once its branches are done
C3_NullOnAbsence ==
    \A cid \in 1..Len(finds) :
        LET f == finds[cid] IN
        ~Present(f) => f.status # "found" /\ (f.pending = {} => f.status = "null")

\* a search of a haystack made from a value decoded something and returned null
C3_Witness ==
    \E cid \in 1..Len(finds) :
        /\ ~Present(finds[cid])
        /\ finds[cid].status = "null"
        /\ finds[cid].haystack # Unrelated
        /\ DOMAIN finds[cid].haystackChecksums # {}

\* C4, as amended: findValueIn(h, 0) settles at once; it returns the chain of
\* the first needle, in insertion order, whose buffer h contains, and null
\* exactly when h contains no needle
C4_FirstNeedle ==
    \A cid \in 1..Len(finds) :
        LET f == finds[cid] IN
        f.maxDecodeLayers = 0 =>
            /\ f.status # "running"
            /\ f.status = "null" <=> \A i \in 1..Len(needles) : ~Occurs(needles[i].buffer, f.haystack)
            /\ f.status = "found" =>
                \E i \in 1..Len(needles) :
                    /\ Occurs(needles[i].buffer, f.haystack)
                    /\ \A j \in 1..(i - 1) : ~Occurs(needles[j].buffer, f.haystack)
                    /\ f.chain = needles[i].transformers

\* findValueIn(h, 0) returned the chain of an encoded needle
C4_Witness ==
    \E cid \in 1..Len(finds) :
        /\ finds[cid].maxDecodeLayers = 0
        /\ finds[cid].status = "found"
        /\ finds[cid].chain # <<>>

\* C4, as stated: findValueIn(h, 0) returns [] if and only if h contains an
\* added value, and null otherwise
C4_AsStated ==
    \A cid \in 1..Len(finds) :
        LET f == finds[cid] IN
        f.maxDecodeLayers = 0 =>
            IF \E k \in 1..Len(values) : Occurs(values[k], f.haystack)
            THEN f.status = "found" /\ f.chain = <<>>
            ELSE f.status = "null"

\* C5: every decoder branch of findValueIn(h, n) has n - |enclosing decoders|
\* >= 1 layers left; a match is made in a buffer that the path's decoders, at
\* most n, produce from h; with only the plain value v added, hex(hex(v))
\* gives null and hex(v) gives [hex] for n = 1
C5_DecodeBound ==
    \A cid \in 1..Len(finds) :
        LET f == finds[cid] IN
        /\ \A branch \in f.pending :
            /\ branch.maxDecodeLayers >= 1
            /\ Len(branch.prev) + branch.maxDecodeLayers = f.maxDecodeLayers
        /\ f.status = "found" =>
            /\ Len(f.path) <= f.maxDecodeLayers
            /\ \E r \in DecodeReach(f.haystack, f.maxDecodeLayers, f.decoders, 0) :
                /\ r.path = f.path
                /\ \E i \in 1..Len(needles) : Occurs(needles[i].buffer, r.buffer)
        /\ \A v \in Values :
            (values = <<v>> /\ LayersOf(v) = 0 /\ f.maxDecodeLayers = 1) =>
                /\ f.haystack = Iter("hex", 2, v) =>
                        f.status # "found" /\ (f.pending = {} => f.status = "null")
                /\ f.haystack = Iter("hex", 1, v) =>
                        f.status = "running" \/ (f.status = "found" /\ f.chain = <<"hex">>)

\* findValueIn(hex(hex(v)), 1) has returned null on a searcher that holds v alone
C5_Witness ==
    \E cid \in 1..Len(finds) :
        /\ values = <<ValueV>>
        /\ LayersOf(ValueV) = 0
        /\ finds[cid].haystack = Iter("hex", 2, ValueV)
        /\ finds[cid].maxDecodeLayers = 1
        /\ finds[cid].status = "null"

\* C6: every needle has a chain no longer than the maxEncodeLayers of a call
\* that added the value it is an encoding of; if n is the largest
\* maxEncodeLayers a value v was added with, the haystack sha256^(n+1)(v) is
\* reported as null and sha256^n(v) is found (sha256 being among the encoders)
C6_EncodeBound ==
    /\ \A i \in 1..Len(needles) :
        \E k \in 1..Len(addCalls) :
            /\ Len(needles[i].transformers) <= addCalls[k].maxEncodeLayers
            /\ needles[i].buffer \in EncodedForms(addCalls[k].value, needles[i].transformers)
    /\ \A cid \in 1..Len(finds) : \A k \in 1..Len(addCalls) :
        LET f == finds[cid]
            v == addCalls[k].value
            n == LayersOf(v)
        IN  /\ f.haystack = Iter("sha256", n + 1, v) =>
                    f.status # "found" /\ (f.pending = {} => f.status = "null")
            /\ (/\ f.haystack = Iter("sha256", n, v)
                /\ addCalls[k].maxEncodeLayers = n
                /\ n = 0 \/ "sha256" \in Range(addCalls[k].encoders)) =>
                    f.status = "found"

\* a value was added with 2 layers; sha256^3 of it has been reported as null
\* after decoding was tried
C6_Witness ==
    \E cid \in 1..Len(finds) : \E k \in 1..Len(addCalls) :
        /\ addCalls[k].maxEncodeLayers = 2
        /\ finds[cid].haystack = Iter("sha256", 3, addCalls[k].value)
        /\ finds[cid].maxDecodeLayers = 2
        /\ finds[cid].status = "null"
        /\ \E i \in 1..Len(needles) : Len(needles[i].transformers) = 2

\* the searcher holds one value, added with maxEncodeLayers = 1, and call f
\* searches an encoding of it by the reversible encoder t with no decode layer
TerminalCase(f, t, endWithNonReversibleLayer) ==
    /\ Len(addCalls) = 1
    /\ addCalls[1].maxEncodeLayers = 1
    /\ addCalls[1].endWithNonReversibleLayer = endWithNonReversibleLayer
    /\ t \in Range(addCalls[1].encoders)
    /\ HasExtractDecode(t)
    /\ f.maxDecodeLayers = 0
    /\ f.haystack \in Range(encodings(t, addCalls[1].value))

\* the haystack contains neither the value nor an encoding of it by another
\* encoder of the call
NoOtherForm(f, t) ==
    /\ ~Occurs(addCalls[1].value, f.haystack)
    /\ \A u \in Range(addCalls[1].encoders) \ {t} :
       \A enc \in Range(encodings(u, addCalls[1].value)) : ~Occurs(enc, f.haystack)

\* C7, as amended: provided reversible_encode(v) contains neither v nor an
\* encoding of v by another encoder of the call, findValueIn(reversible_encode(v), 0)
\* returns null with endWithNonReversibleLayer = true and [reversible_encoder]
\* with endWithNonReversibleLayer = false
C7_TerminalPolicy ==
    \A cid \in 1..Len(finds) : \A t \in Transformers :
        LET f == finds[cid] IN
        /\ (TerminalCase(f, t, TRUE) /\ NoOtherForm(f, t)) => f.status = "null"
        /\ (TerminalCase(f, t, FALSE) /\ NoOtherForm(f, t)) =>
                f.status = "found" /\ f.chain = <<t>>

\* with endWithNonReversibleLayer = false the reversible encoding was found
C7_Witness ==
    \E cid \in 1..Len(finds) : \E t \in Transformers :
        /\ TerminalCase(finds[cid], t, FALSE)
        /\ NoOtherForm(finds[cid], t)
        /\ finds[cid].chain = <<t>>

\* C7, as stated: findValueIn(reversible_encode(v), 0) returns null with
\* endWithNonReversibleLayer = true and [reversible_encoder] with false
C7_AsStated ==
    \A cid \in 1..Len(finds) : \A t \in Transformers :
        LET f == finds[cid] IN
        /\ TerminalCase(f, t, TRUE) => f.status = "null"
        /\ TerminalCase(f, t, FALSE) => f.status = "found" /\ f.chain = <<t>>

\* after calls that were all made with endWithNonReversibleLayer = true, the
\* outermost transformer of every encoded needle has no extractDecode
C8_Eligible ==
    (\A k \in 1..Len(addCalls) : addCalls[k].endWithNonReversibleLayer) =>
        \A i \in 1..Len(needles) :
            needles[i].transformers # <<>> => ~HasExtractDecode(needles[i].transformers[1])

\* an #addEncodings of a call made with endWithNonReversibleLayer = false
\* appends every admitted child whose fingerprint the needle list lacks
C8_Inserted ==
    (/\ addCalls' = addCalls
     /\ needles' # needles \/ newEncodings' # newEncodings
     /\ ~CurrentAdd.endWithNonReversibleLayer) =>
        \A j \in 1..Len(newEncodings') :
            newEncodings'[j].checksum \notin needleChecksums =>
                \E i \in (Len(needles) + 1)..Len(needles') : needles'[i] = newEncodings'[j].needle

\* C8: with endWithNonReversibleLayer = true only children whose chain[0] is
\* non-reversible enter the needle list; with false every admitted child
\* does, unless a needle with its fingerprint is in the list already
C8_SearchSet == []C8_Eligible /\ [][C8_Inserted]_vars

\* with endWithNonReversibleLayer = true a child with a reversible chain[0]
\* was admitted and kept out of the needle list, and a two-layer needle is in
C8_Witness ==
    /\ addCalls # <<>>
    /\ \A k \in 1..Len(addCalls) : addCalls[k].endWithNonReversibleLayer
    /\ \E j \in 1..Len(newEncodings) :
        /\ HasExtractDecode(newEncodings[j].needle.transformers[1])
        /\ \A i \in 1..Len(needles) : needles[i].buffer # newEncodings[j].needle.buffer
    /\ \E i \in 1..Len(needles) : Len(needles[i].transformers) = 2

\* C9: no two needles of the needle list have the same CRC-32
C9_UniqueFingerprints ==
    \A i, j \in 1..Len(needles) :
        i # j => crc32(needles[i].buffer) # crc32(needles[j].buffer)

\* the same value was added twice, the second time with encodings that the
\* first call had added too
C9_Witness ==
    /\ Len(addCalls) = 2
    /\ addCalls[1].value = addCalls[2].value
    /\ addCalls[1].maxEncodeLayers = 2
    /\ addCalls[2].maxEncodeLayers = 2
    /\ addedNeedleChecksums[2] # EmptyMap
    /\ addTasks = {}

\* C10: minNeedleLength is at most the length of every needle's buffer
C10_MinNeedleLength ==
    \A i \in 1..Len(needles) : minNeedleLength <= Len(needles[i].buffer)

\* #addEncodings has lowered minNeedleLength below the length of the value
C10_Witness ==
    /\ values = <<ValueKvv>>
    /\ minNeedleLength < Len(ValueKvv)
    /\ \E i \in 1..Len(needles) : Len(needles[i].buffer) = minNeedleLength

\* needle j carries the chain of needle i with further encoders in front,
\* and its buffer is what these encoders make of the buffer of needle i
Extends(j, i) ==
    LET long  == needles[j].transformers
        short == needles[i].transformers
        extra == Len(long) - Len(short)
    IN  /\ extra > 0
        /\ SubSeq(long, extra + 1, Len(long)) = short
        /\ needles[j].buffer \in EncodedForms(needles[i].buffer, SubSeq(long, 1, extra))

\* once a call has finished, every one-layer needle made by a non-reversible
\* encoder of a call with maxEncodeLayers >= 2 has its encodings by that
\* encoder in the needle list
C11_Extended ==
    addTasks = {} =>
        \A k \in 1..Len(addCalls) : \A i \in 1..Len(needles) :
            LET call == addCalls[k]
                t    == needles[i].transformers[1]
            IN  (/\ call.maxEncodeLayers >= 2
                 /\ Len(needles[i].transformers) = 1
                 /\ ~HasExtractDecode(t)
                 /\ t \in Range(call.encoders)
                 /\ needles[i].buffer \in Range(encodings(t, call.value))) =>
                    \A enc \in Range(encodings(t, needles[i].buffer)) :
                        \E j \in 1..Len(needles) : needles[j].buffer = enc

\* an #addEncodings that resumes with layers left starts an #addEncodings
\* for every child it admitted, whatever the first element of its chain
C11_RecursesOnAll ==
    (addCalls' = addCalls /\ addTasks' # addTasks) =>
        \A task \in addTasks \ addTasks' :
            task.maxExtraLayers # 0 =>
                \A j \in 1..Len(newEncodings') :
                    AddEncodingsStart(task.call, newEncodings'[j].needle,
                                      task.maxExtraLayers - 1) \in addTasks'

\* C11, as amended: a chain is terminal only when its length has reached
\* maxEncodeLayers; while layers are left #addEncodings recurses on every
\* admitted child, also on one whose first chain element is non-reversible,
\* so that sha256(sha256(v)) follows sha256(v) when maxEncodeLayers >= 2
C11_TerminalAtBound ==
    /\ [](C11_Extended /\ \A i \in 1..Len(needles) :
                            \E k \in 1..Len(addCalls) :
                                Len(needles[i].transformers) <= addCalls[k].maxEncodeLayers)
    /\ [][C11_RecursesOnAll]_vars

\* the needle list holds sha256(v) with chain [sha256] and sha256(sha256(v))
\* with chain [sha256, sha256]
C11_Witness ==
    \E i, j \in 1..Len(needles) :
        /\ needles[i].transformers = <<"sha256">>
        /\ needles[j].transformers = <<"sha256", "sha256">>
        /\ Extends(j, i)
        /\ addTasks = {}

\* C11, as stated: no needle extends the chain of a needle whose first chain
\* element is non-reversible
C11_AsStated ==
    \A i, j \in 1..Len(needles) :
        (/\ needles[i].transformers # <<>>
         /\ ~HasExtractDecode(needles[i].transformers[1])) => ~Extends(j, i)

\* C12: every needle's buffer is what the encoders of its chain, the last
\* element applied first and one yielded candidate chosen at each step, make
\* of an added value; a needle with the empty chain is an added value
C12_Provenance ==
    \A i \in 1..Len(needles) :
        \E k \in 1..Len(values) :
            /\ needles[i].buffer \in EncodedForms(values[k], needles[i].transformers)
            /\ needles[i].transformers = <<>> => needles[i].buffer = values[k]

\* two values are in, and the needle list holds a raw needle and needles
\* with the chains [hex, sha256] and [sha256, hex]
C12_Witness ==
    /\ Len(values) = 2
    /\ \E i \in 1..Len(needles) : needles[i].transformers = <<>>
    /\ \E i \in 1..Len(needles) : needles[i].transformers = <<"hex", "sha256">>
    /\ \E i \in 1..Len(needles) : needles[i].transformers = <<"sha256", "hex">>

\* list is the beginning of longer, element by element
IsPrefix(list, longer) ==
    Len(list) <= Len(longer) /\ SubSeq(longer, 1, Len(list)) = list

\* a step leaves every value and every needle where and as it was and puts
\* new ones behind them
C13_Appended == IsPrefix(values, values') /\ IsPrefix(needles, needles')

\* C13: across addValue and findValueIn calls in any order the values list
\* and the needle list only grow by appending; an element once present is
\* never removed, reordered or changed
C13_AddOnly == [][C13_Appended]_vars

\* a value was added between two searches, and both lists have grown since
\* the first search
C13_Witness ==
    /\ Len(finds) = 2
    /\ Len(values) = 2
    /\ Len(needles) >= 3
    /\ finds[1].status = "null"
    /\ finds[2].status = "found"
    /\ finds[1].haystack = finds[2].haystack

\* a step of a search leaves the searcher as it was
C14_SearchStep == finds' # finds => UNCHANGED searcher

\* C14: findValueIn, the prepending of decoders to the matched needle's
\* chain included, leaves the values list, the needle list (each needle's
\* buffer and chain), the fingerprint sets and minNeedleLength unchanged
C14_ReadOnly == [][C14_SearchStep]_vars

\* a search has returned the chain of a needle with a decoder put in front
C14_Witness ==
    \E cid \in 1..Len(finds) : \E i \in 1..Len(needles) :
        /\ finds[cid].status = "found"
        /\ finds[cid].path = <<"hex">>
        /\ needles[i].transformers = <<"sha256">>
        /\ finds[cid].chain = <<"hex">> \o needles[i].transformers

\* task i has resolved to a result that satisfies the condition, and its
\* arrow function has seen it
Satisfied(i) ==
    /\ race.tasks[i].state = "fulfilled"
    /\ race.tasks[i].pc = "done"
    /\ condition(race.tasks[i].result)

\* task i has failed, and its arrow function has seen it
Failed(i) == race.tasks[i].state = "rejected" /\ race.tasks[i].pc = "done"

\* the race completes with a result only if a task resolved to it and it
\* satisfies the condition, and has completed once a task did so; it
\* completes with undefined only after every task has resolved to a result
\* that fails the condition, and has completed once all tasks have settled
C15_Completion ==
    LET tasks == race.tasks
        ids   == 1..Len(tasks)
    IN  /\ \A r \in Results :
            race.outcome = <<"resolved", r>> =>
                condition(r) /\ \E i \in ids : Satisfied(i) /\ tasks[i].result = r
        /\ \A i \in ids : Satisfied(i) => race.outcome # <<"pending">>
        /\ race.outcome = <<"resolved", "undefined">> =>
                /\ race.allSettled
                /\ \A i \in ids : /\ tasks[i].state = "fulfilled"
                                   /\ tasks[i].pc = "done"
                                   /\ ~condition(tasks[i].result)
        /\ race.allSettled => race.outcome # <<"pending">>

\* a completed race keeps its outcome
C15_Final == race.outcome \notin {<<"none">>, <<"pending">>} => race.outcome' = race.outcome

\* C15: for any collection of tasks, the empty one included,
\* raceWithCondition completes as soon as a task resolves to a result that
\* satisfies the condition, with that result; otherwise it completes with
\* undefined only after all tasks have settled
C15_Race == []C15_Completion /\ [][C15_Final]_vars

\* of three tasks one has resolved to a satisfying result, with which the
\* race has completed while another task is still pending
C15_Witness ==
    /\ Len(race.tasks) = 3
    /\ race.outcome = <<"resolved", "b">>
    /\ \E i \in 1..3 : race.tasks[i].state = "pending"
    /\ \E i \in 1..3 : race.tasks[i].state = "fulfilled" /\ race.tasks[i].result = "null"

\* the race of the empty collection has completed with undefined
C15_WitnessEmpty == race.tasks = <<>> /\ race.outcome = <<"resolved", "undefined">>

\* the race fails only with the failure of a task; once the arrow function
\* of a failed task has run, the race has failed or had completed with a
\* satisfying result before
C16_Surfaced ==
    LET ids == 1..Len(race.tasks)
    IN  /\ race.outcome[1] = "rejected" =>
                \E i \in ids : Failed(i) /\ race.outcome = <<"rejected", race.tasks[i].result>>
        /\ \A i \in ids :
                Failed(i) =>
                    \/ race.outcome[1] = "rejected"
                    \/ /\ race.outcome[1] = "resolved"
                       /\ \E j \in ids : Satisfied(j) /\ race.outcome[2] = race.tasks[j].result

\* whatever the outcome of the race, every task that has not finished can
\* take its next step
C16_NotCancelled ==
    \A i \in 1..Len(race.tasks) :
        /\ race.tasks[i].state = "pending" => ENABLED PromiseSettles(i, "fulfilled", "a")
        /\ (race.tasks[i].pc = "awaitP" /\ race.tasks[i].state # "pending") =>
                ENABLED AwaitPromise(i)
        /\ race.tasks[i].pc = "awaitCond" => ENABLED AwaitCondition(i)

\* a failure seen after the race has completed changes nothing
C16_Ignored ==
    (/\ race.outcome \notin {<<"none">>, <<"pending">>}
     /\ \E i \in 1..Len(race.tasks) : ~Failed(i) /\ Failed(i)') => race.outcome' = race.outcome

\* C16: the failure of a task is the final result of the race unless the race
\* has completed with a satisfying result before, in which case the failure is
\* ignored; a failure cancels no other task
C16_Failure == [](C16_Surfaced /\ C16_NotCancelled) /\ [][C16_Ignored]_vars

\* the race has failed with the failure of one task, and a task that
\* resolved to a satisfying result afterwards ran to its end
C16_Witness ==
    /\ race.outcome = <<"rejected", Failure>>
    /\ \E i, j \in 1..Len(race.tasks) : Failed(i) /\ Satisfied(j)

\* the first #findValueImpl of call f found no needle in the haystack and
\* started its decoder branches, and the branch of a decoder that throws on
\* the haystack has run
ThrowingBranchRan(f) ==
    /\ f.maxDecodeLayers # 0
    /\ ~(f.status = "found" /\ f.path = <<>>)
    /\ \E i \in 1..Len(f.decoders) : Throws(f.decoders[i], f.haystack)
    /\ \A branch \in f.pending :
            ~(branch.prev = <<>> /\ Throws(branch.decoder, branch.haystack))

\* C17, as amended: when a decoder's extractDecode throws during a search,
\* findValueIn fails with that error unless a match was made before, in
\* which case the match is returned; the search never returns null then,
\* and it fails only if a decoder threw
C17_Propagates ==
    \A cid \in 1..Len(finds) :
        LET f == finds[cid] IN
        /\ ThrowingBranchRan(f) =>
                \/ f.status = "rejected"
                \/ f.status = "found" /\ f.path # <<>>
        /\ f.status = "rejected" =>
                \E i \in 1..Len(f.decoders) : Throws(f.decoders[i], f.haystack)

\* a search has failed with the error of the throwing decoder although the
\* hex decoder, run afterwards, leads to a needle
C17_Witness ==
    \E cid \in 1..Len(finds) :
        LET f == finds[cid] IN
        /\ f.status = "rejected"
        /\ f.pending = {}
        /\ f.haystack = Iter("hex", 1, ValueV)
        /\ f.haystackChecksums # EmptyMap

\* C17, as stated: the branch of a decoder that throws resolves null, so
\* that a search settles as it does without that decoder
C17_AsStated ==
    \A cid \in 1..Len(finds) :
        LET f == finds[cid] IN
        f.pending = {} =>
            <<f.status, f.chain>> \in
                SoloRun(StartCall(f.haystack, f.maxDecodeLayers,
                                  SelectSeq(f.decoders, LAMBDA t : ~Throws(t, f.haystack)),
                                  f.minEncodedLength))

\* the elements of a list in the order of their first occurrence
RECURSIVE FirstOccurrences(_)
FirstOccurrences(list) ==
    IF list = <<>> THEN <<>>
    ELSE LET front == FirstOccurrences(SubSeq(list, 1, Len(list) - 1))
             last  == list[Len(list)]
         IN  IF last \in Range(front) THEN front ELSE Append(front, last)

\* a call that fails an assertion changes nothing but thrown, to which it
\* adds its message
C18_FailsFast ==
    thrown' # thrown =>
        /\ UNCHANGED <<searcher, addCalls, addedNeedleChecksums, addTasks, newEncodings, finds>>
        /\ \E message \in {"value cannot be empty", "call addValue first"} :
                thrown' = Append(thrown, message)
        /\ thrown'[Len(thrown')] = "call addValue first" => values = <<>>

\* whatever calls have failed, the searcher is what the valid calls made it:
\* the values are those of the valid addValue calls, no value or needle is
\* empty, and every search was started on a searcher with a value
C18_AsIfNotCalled ==
    /\ values = FirstOccurrences([k \in 1..Len(addCalls) |-> addCalls[k].value])
    /\ \A i \in 1..Len(needles) : needles[i].buffer # <<>>
    /\ Cardinality(valueChecksums) = Len(values)
    /\ Cardinality(needleChecksums) = Len(needles)
    /\ minNeedleLength > 0
    /\ addCalls = <<>> => finds = <<>> /\ needles = <<>> /\ minNeedleLength = Infinity

\* C18: addValue with an empty value and findValueIn before any value was
\* added fail without changing the values list, the needle list, the
\* fingerprint sets or minNeedleLength, and the searcher serves later valid
\* calls as if the failed call had not been made
C18_Contract == []C18_AsIfNotCalled /\ [][C18_FailsFast]_vars

\* both calls have failed on the new searcher, after which a value was
\* added with its encodings and found in a haystack
C18_Witness ==
    /\ thrown = <<"value cannot be empty", "call addValue first">>
    /\ Len(needles) >= 2
    /\ \E cid \in 1..Len(finds) : finds[cid].status = "found" /\ finds[cid].path # <<>>

\* the chains of 1 to n encoders
RECURSIVE Chains(_, _)
Chains(encoders, n) ==
    IF n = 0 THEN {}
    ELSE LET shorter == Chains(encoders, n - 1)
         IN  {<<encoders[i]>> : i \in 1..Len(encoders)} \cup shorter \cup
             {<<encoders[i]>> \o chain : i \in 1..Len(encoders), chain \in shorter}

\* the encodings of its value that a call is to make findable: those by up
\* to maxEncodeLayers of its encoders, the outermost non-reversible when
\* the call ends with a non-reversible layer
FormsOfCall(call) ==
    UNION {EncodedForms(call.value, chain) :
            chain \in {c \in Chains(call.encoders, call.maxEncodeLayers) :
                            ~(call.endWithNonReversibleLayer /\ HasExtractDecode(c[1]))}}

\* C19: once a value has been added twice, the second time with other
\* encoders, the needle list holds its encodings under the encoders of both
\* calls, while the value is in the values list once and a raw needle once
C19_BothEncoders ==
    \A k1, k2 \in 1..Len(addCalls) :
        (/\ k1 < k2
         /\ addTasks = {}
         /\ addCalls[k1].value = addCalls[k2].value
         /\ addCalls[k1].maxEncodeLayers >= 1
         /\ addCalls[k2].maxEncodeLayers >= 1) =>
            LET v == addCalls[k1].value IN
            /\ \A form \in FormsOfCall(addCalls[k1]) \cup FormsOfCall(addCalls[k2]) :
                    \E i \in 1..Len(needles) : needles[i].buffer = form
            /\ Cardinality({i \in 1..Len(values) : values[i] = v}) = 1
            /\ Cardinality({i \in 1..Len(needles) : needles[i].buffer = v}) = 1
            /\ \E i \in 1..Len(needles) : needles[i] = Needle(v, <<>>)

\* the value was added with [sha256, hex] and then with [map, sha256], both
\* times with one layer and any chain[0]; the needle list holds its hex
\* encoding from the first call and its map encoding from the second
C19_Witness ==
    /\ Len(addCalls) = 2
    /\ addTasks = {}
    /\ \A k \in 1..2 : /\ addCalls[k].value = ValueKvv
                        /\ addCalls[k].maxEncodeLayers = 1
                        /\ ~addCalls[k].endWithNonReversibleLayer
    /\ addCalls[1].encoders = <<"sha256", "hex">>
    /\ addCalls[2].encoders = <<"map", "sha256">>
    /\ \E i \in 1..Len(needles) : needles[i].transformers = <<"map">>
    /\ \E i \in 1..Len(needles) : needles[i].transformers = <<"hex">>

\* the least of the numbers of a non-empty set
Least(numbers) == CHOOSE n \in numbers : \A m \in numbers : n <= m

\* the compressed lengths of the added values under the decoders that have
\* both extractDecode and compressedLength
CompressedLengths(decoders) ==
    {compressedLength(decoders[i], values[k]) :
        i \in {j \in 1..Len(decoders) :
                  HasExtractDecode(decoders[j]) /\ HasCompressedLength(decoders[j])},
        k \in 1..Len(values)}

\* C20: minEncodedLength of a search is the least of minNeedleLength and
\* the compressed lengths of the added values under the decompressing
\* decoders; every decoder branch at every layer is given exactly this
\* value; it is at most minNeedleLength, and the hex form of a compressed
\* value, shorter than every needle, is decoded and found
C20_MinEncodedLength ==
    \A cid \in 1..Len(finds) :
        LET f == finds[cid] IN
        /\ f.minEncodedLength = Least({minNeedleLength} \cup CompressedLengths(f.decoders))
        /\ f.minEncodedLength <= minNeedleLength
        /\ \A branch \in f.pending : branch.minEncodedLength = f.minEncodedLength
        /\ \A k \in 1..Len(values) :
                (/\ f.haystack = Iter("hex", 1, Iter("compress", 1, values[k]))
                 /\ f.decoders = <<"hex", "compress">>
                 /\ f.maxDecodeLayers = 2
                 /\ f.pending = {}) => f.status = "found"

\* the value was added alone; the hex form of its compressed form, shorter
\* than the value, was decoded in two layers and the value found
C20_Witness ==
    \E cid \in 1..Len(finds) :
        LET f == finds[cid] IN
        /\ values = <<ValueRun>>
        /\ needles = <<Needle(ValueRun, <<>>)>>
        /\ f.haystack = Iter("hex", 1, Iter("compress", 1, ValueRun))
        /\ Len(f.haystack) < minNeedleLength
        /\ f.minEncodedLength < minNeedleLength
        /\ f.status = "found"
        /\ f.chain = <<"hex", "compress">>

\* the chain of the first needle, in the order of the needle list, whose
\* buffer occurs in the given buffer; the buffer contains a needle
FirstNeedleChain(buffer) ==
    LET hits == {i \in 1..Len(needles) : Occurs(needles[i].buffer, buffer)}
    IN  needles[CHOOSE i \in hits : \A j \in hits : i <= j].transformers

\* C21: a result of findValueIn is d1, ..., dk followed by the chain of the
\* matched needle, d1 being applied to the haystack, each further decoder to
\* an output of the one before, and the needle occurring in an output of
\* dk; the result is empty exactly when the haystack itself contains a
\* needle and the first such needle is a raw value
C21_ChainOrder ==
    \A cid \in 1..Len(finds) :
        LET f == finds[cid]
            atTop == \E i \in 1..Len(needles) : Occurs(needles[i].buffer, f.haystack)
        IN  f.status = "found" =>
            /\ Len(f.path) <= f.maxDecodeLayers
            /\ \E r \in DecodeReach(f.haystack, f.maxDecodeLayers, f.decoders, f.minEncodedLength) :
                    /\ r.path = f.path
                    /\ \E i \in 1..Len(needles) : Occurs(needles[i].buffer, r.buffer)
                    /\ f.chain = f.path \o FirstNeedleChain(r.buffer)
            /\ f.chain = <<>> <=> (atTop /\ FirstNeedleChain(f.haystack) = <<>>)

\* the hex encoding of the hex encoding of a value was decoded twice and the
\* value found, and the result lists the two decoders
C21_Witness ==
    \E cid \in 1..Len(finds) :
        /\ finds[cid].status = "found"
        /\ finds[cid].haystack = Iter("hex", 2, values[1])
        /\ finds[cid].chain = <<"hex", "hex">>
        /\ finds[cid].path = <<"hex", "hex">>

\* the entries of two layer maps agree outside the fingerprints fps
SameElsewhere(old, new, fps) ==
    \A fp \in (DOMAIN old \cup DOMAIN new) \ fps :
        fp \in DOMAIN old /\ fp \in DOMAIN new /\ new[fp] = old[fp]

\* how often a recursive search was started for the fingerprint at the layer
StartedAt(started, fp, layer) ==
    IF <<fp, layer>> \in DOMAIN started THEN started[<<fp, layer>>] ELSE 0

\* the search side of C22: a decoder branch that resumes at layer
\* maxDecodeLayers starts a recursive search for a decoded buffer exactly
\* when the layer map has no record of its fingerprint or a record strictly
\* below maxDecodeLayers, and the record is then maxDecodeLayers; otherwise
\* nothing is started and the record stays
C22_SearchSide ==
    \A cid \in 1..Len(finds) :
        (Len(finds') = Len(finds) /\ finds'[cid] # finds[cid]) =>
            \A branch \in finds[cid].pending \ finds'[cid].pending :
                LET offered == extractDecode(branch.decoder, branch.haystack,
                                             branch.minEncodedLength)
                    fps     == {crc32(offered[i]) : i \in 1..Len(offered)}
                    old     == finds[cid].haystackChecksums
                    new     == finds'[cid].haystackChecksums
                    layer   == branch.maxDecodeLayers
                IN  /\ SameElsewhere(old, new, fps)
                    /\ \A fp \in fps :
                        IF LayerOf(old, fp) < layer
                        THEN /\ LayerOf(new, fp) = layer
                             /\ StartedAt(finds'[cid].started, fp, layer)
                                    = StartedAt(finds[cid].started, fp, layer) + 1
                        ELSE /\ LayerOf(new, fp) = LayerOf(old, fp)
                             /\ StartedAt(finds'[cid].started, fp, layer)
                                    = StartedAt(finds[cid].started, fp, layer)

\* the needle side of C22: an #addEncodings that resumes at layer
\* maxExtraLayers admits an encoding exactly when the layer map of its call
\* has no record of its fingerprint or a record strictly below
\* maxExtraLayers, and the record is then maxExtraLayers; otherwise the
\* encoding is dropped and the record stays
C22_NeedleSide ==
    (addCalls' = addCalls /\ addTasks' # addTasks) =>
        \A task \in addTasks \ addTasks' :
            LET call    == addCalls[task.call]
                offered == EncodedNeedles(LayerEncoders(call.encoders,
                                                        call.endWithNonReversibleLayer,
                                                        task.maxExtraLayers),
                                          task.needle)
                fps     == {offered[i].checksum : i \in 1..Len(offered)}
                old     == addedNeedleChecksums[task.call]
                new     == addedNeedleChecksums'[task.call]
                layer   == task.maxExtraLayers
                admitted(fp) == {j \in 1..Len(newEncodings') : newEncodings'[j].checksum = fp}
            IN  /\ SameElsewhere(old, new, fps)
                /\ \A j \in 1..Len(newEncodings') : newEncodings'[j].checksum \in fps
                /\ \A fp \in fps :
                    IF LayerOf(old, fp) < layer
                    THEN LayerOf(new, fp) = layer /\ Cardinality(admitted(fp)) = 1
                    ELSE LayerOf(new, fp) = LayerOf(old, fp) /\ admitted(fp) = {}

\* C22: in the search and in the needle engine alike a candidate is accepted
\* iff its fingerprint has no recorded layer or one strictly less than the
\* current layer; on acceptance the record becomes the current layer,
\* otherwise the candidate is rejected and the record is unchanged
C22_LayerMemo == [][C22_SearchSide /\ C22_NeedleSide]_vars

\* a decoded buffer first met at layer 1 was searched again when it was met
\* at layer 2, and the #addEncodings of a child of the value has dropped, at
\* layer 0, an encoding that its call had recorded at layer 1
C22_Witness ==
    /\ \E cid \in 1..Len(finds) : \E fp \in DOMAIN finds[cid].haystackChecksums :
            /\ finds[cid].haystackChecksums[fp] = 2
            /\ StartedAt(finds[cid].started, fp, 1) = 1
            /\ StartedAt(finds[cid].started, fp, 2) = 1
    /\ addTasks = {}
    /\ \E k \in 1..Len(addCalls) :
            LET call == addCalls[k]
            IN  /\ call.maxEncodeLayers = 2
                /\ \E child \in Range(EncodedNeedles(call.encoders, Needle(call.value, <<>>))) :
                   \E e \in Range(EncodedNeedles(LayerEncoders(call.encoders,
                                                               call.endWithNonReversibleLayer, 0),
                                                 child.needle)) :
                        LayerOf(addedNeedleChecksums[k], e.checksum) = 1

\* some sequence of at most maxDecodeLayers decoder applications leads from
\* the haystack of the call to a buffer that contains a needle
Reachable(f) ==
    \E r \in DecodeReach(f.haystack, f.maxDecodeLayers, f.decoders, f.minEncodedLength) :
        \E i \in 1..Len(needles) : Occurs(needles[i].buffer, r.buffer)

\* C23: when at most maxDecodeLayers decoder applications lead from the
\* haystack to a buffer that contains a needle, findValueIn never settles
\* with null and has returned a chain once its branches are done, whatever
\* the order in which the branches resume; a buffer met first with too few
\* layers left is searched again when it is met with more
C23_Complete ==
    \A cid \in 1..Len(finds) :
        LET f == finds[cid]
        IN  Reachable(f) =>
                /\ f.status \in {"running", "found"}
                /\ f.pending = {} => f.status = "found"

\* the value was found two decodes down in a buffer that had been searched
\* before with one layer left, to no avail
C23_Witness ==
    \E cid \in 1..Len(finds) :
        LET f == finds[cid]
        IN  /\ f.status = "found"
            /\ f.pending = {}
            /\ Len(f.path) = 2
            /\ \E r \in DecodeReach(f.haystack, 1, f.decoders, f.minEncodedLength) :
                    /\ Len(r.path) = 1
                    /\ StartedAt(f.started, crc32(r.buffer), 1) = 1
                    /\ StartedAt(f.started, crc32(r.buffer), 2) = 1

\* the calls made so far all end with a non-reversible layer
AllEndNonReversible == \A k \in 1..Len(addCalls) : addCalls[k].endWithNonReversibleLayer

\* the pairs of a reversible and a non-reversible encoder of a call
LayerPairs(call) ==
    {pair \in Range(call.encoders) \X Range(call.encoders) :
        HasExtractDecode(pair[1]) /\ ~HasExtractDecode(pair[2])}

\* the needle list holds the buffer with the chain
IsNeedle(buffer, chain) == \E i \in 1..Len(needles) : needles[i] = Needle(buffer, chain)

\* the needle list holds the buffer
IsNeedleBuffer(buffer) == \E i \in 1..Len(needles) : needles[i].buffer = buffer

\* once the calls are done, h(r(v)) is a needle with the chain [h, r] and
\* r(v) is none, for every reversible r that changes v
C24_ThroughNonInserted ==
    (addTasks = {} /\ AllEndNonReversible) =>
        \A k \in 1..Len(addCalls) : \A pair \in LayerPairs(addCalls[k]) :
            LET call == addCalls[k]
                r    == pair[1]
                h    == pair[2]
            IN  call.maxEncodeLayers >= 2 =>
                    \A rv \in Range(encodings(r, call.value)) :
                        /\ rv # call.value =>
                                /\ ~IsNeedleBuffer(rv)
                                /\ \A b \in Range(encodings(h, rv)) : IsNeedle(b, <<h, r>>)
                        /\ rv = call.value =>
                                \A b \in Range(encodings(h, rv)) : IsNeedle(b, <<h>>)

\* an #addEncodings with layers left starts an #addEncodings for every
\* admitted child that it keeps off the needle list; one at layer 0 of a
\* call that ends with a non-reversible layer admits and records the
\* encodings of non-reversible encoders only
C24_Recursion ==
    (addCalls' = addCalls /\ addTasks' # addTasks) =>
        \A task \in addTasks \ addTasks' :
            LET call  == addCalls[task.call]
                added == {needles'[i] : i \in (Len(needles) + 1)..Len(needles')}
                old   == addedNeedleChecksums[task.call]
                new   == addedNeedleChecksums'[task.call]
            IN  /\ task.maxExtraLayers > 0 =>
                    \A j \in 1..Len(newEncodings') :
                        newEncodings'[j].needle \notin added =>
                            AddEncodingsStart(task.call, newEncodings'[j].needle,
                                              task.maxExtraLayers - 1) \in addTasks'
                /\ (task.maxExtraLayers = 0 /\ call.endWithNonReversibleLayer) =>
                    /\ \A j \in 1..Len(newEncodings') :
                            ~HasExtractDecode(newEncodings'[j].needle.transformers[1])
                    /\ \A fp \in DOMAIN new :
                            LayerOf(old, fp) # LayerOf(new, fp) =>
                                \E j \in 1..Len(newEncodings') : newEncodings'[j].checksum = fp
                    /\ addTasks' = addTasks \ {task}

\* C24, as amended: with layers left #addEncodings recurses into every
\* admitted child whether or not it was inserted, so with
\* endWithNonReversibleLayer = true and maxEncodeLayers >= 2, for a
\* reversible r with r(v) # v and a non-reversible h, h(r(v)) becomes a
\* needle with chain [h, r] although r(v) is not a needle; when r(v) = v the
\* buffer is on the list with chain [h]; at layer 0 with
\* endWithNonReversibleLayer = true reversible encoders are not applied
C24_NonInserted == [](C24_ThroughNonInserted) /\ [][C24_Recursion]_vars

\* sha256(map("kvv")) is a needle with chain [sha256, map], map("kvv") is
\* none
C24_Witness ==
    /\ addTasks = {}
    /\ AllEndNonReversible
    /\ \E k \in 1..Len(addCalls) :
            /\ addCalls[k].value = ValueKvv
            /\ addCalls[k].maxEncodeLayers = 2
            /\ addCalls[k].encoders = <<"map", "sha256">>
    /\ IsNeedle(Iter("sha256", 1, Iter("map", 1, ValueKvv)), <<"sha256", "map">>)
    /\ ~IsNeedleBuffer(Iter("map", 1, ValueKvv))

\* C24, as stated: for every reversible r and non-reversible h of a call
\* with endWithNonReversibleLayer = true and maxEncodeLayers >= 2, h(r(v))
\* is a needle with chain [h, r] and r(v) is not a needle
C24_AsStated ==
    (addTasks = {} /\ AllEndNonReversible) =>
        \A k \in 1..Len(addCalls) : \A pair \in LayerPairs(addCalls[k]) :
            addCalls[k].maxEncodeLayers >= 2 =>
                \A rv \in Range(encodings(pair[1], addCalls[k].value)) :
                    /\ ~IsNeedleBuffer(rv)
                    /\ \A b \in Range(encodings(pair[2], rv)) : IsNeedle(b, <<pair[2], pair[1]>>)

\* an addValue call has not settled
AddPending == addTasks # {}

\* a findValueIn call has not settled
FindPending == \E cid \in 1..Len(finds) : finds[cid].status = "running"

\* a branch of a findValueIn call has not run to its end
BranchPending == \E cid \in 1..Len(finds) : finds[cid].pending # {}

\* every #addEncodings started by a resumed one has one layer less, and
\* one resumed at layer 0 starts none
C25_AddDescends ==
    (addCalls' = addCalls /\ addTasks' # addTasks) =>
        \A task \in addTasks \ addTasks' :
            /\ \A child \in addTasks' \ addTasks :
                    /\ child.call = task.call
                    /\ child.maxExtraLayers = task.maxExtraLayers - 1
                    /\ child.maxExtraLayers >= 0
            /\ task.maxExtraLayers = 0 => addTasks' = addTasks \ {task}

\* every decoder branch started below a resumed one has one layer less and
\* at least one layer, so that a #findValueImpl with no layer left decodes
\* nothing
C25_FindDescends ==
    \A cid \in 1..Len(finds) :
        (Len(finds') = Len(finds) /\ finds'[cid] # finds[cid]) =>
            \A branch \in finds[cid].pending \ finds'[cid].pending :
                /\ \A child \in finds'[cid].pending \ finds[cid].pending :
                        /\ child.maxDecodeLayers = branch.maxDecodeLayers - 1
                        /\ child.maxDecodeLayers >= 1
                        /\ Len(child.prev) = Len(branch.prev) + 1
                /\ branch.maxDecodeLayers = 1 =>
                        finds'[cid].pending = finds[cid].pending \ {branch}

\* C25: every addValue call and every findValueIn call settles in the end,
\* and the branches that lost the race run to their end; every recursive
\* call has one layer less than its caller and nothing recurses at layer 0
C25_Terminates ==
    /\ AddPending ~> ~AddPending
    /\ FindPending ~> ~FindPending
    /\ BranchPending ~> ~BranchPending
    /\ [][C25_AddDescends /\ C25_FindDescends]_vars

\* an addValue call with two layers and a findValueIn call that decoded two
\* layers deep have both settled, with nothing left to run
C25_Witness ==
    /\ ~AddPending /\ ~BranchPending
    /\ \E k \in 1..Len(addCalls) :
            /\ addCalls[k].maxEncodeLayers = 2
            /\ \E i \in 1..Len(needles) : Len(needles[i].transformers) = 2
    /\ \E cid \in 1..Len(finds) :
            /\ finds[cid].maxDecodeLayers = 2
            /\ finds[cid].status = "null"
            /\ \E key \in DOMAIN finds[cid].started : key[2] = 1

\* list is made of elements of order, in the order they have there
InOrder(list, order) ==
    \E pick \in SUBSET (1..Len(order)) :
        list = SelectSeq(order, LAMBDA fn : \E i \in pick : order[i] = fn)

\* C26, as amended: extractDecode calls unzip first, when gzip is among the
\* formats and the value has more than 10 bytes and starts with 0x1f8b, or
\* deflate is among them and the value has more than 2 bytes and a 16-bit
\* big-endian header divisible by 31; on success it yields that single
\* buffer and stops.  Otherwise it calls inflateRaw when deflate-raw is
\* among the formats, the value is not empty and bits 1 and 2 of its first
\* byte are not both set (the low three bits are neither 0b110 nor 0b111),
\* and yields the output on success; and then, whether or not inflateRaw
\* was called or succeeded, it calls brotliDecompress when brotli is among
\* the formats and yields the output on success
C26_Decision ==
    decoding.pc = "done" =>
        LET value   == decoding.value
            formats == decoding.formats
            called(fn)  == fn \in Range(decoding.tried)
            yielded(fn) == fn \in Range(decoding.yielded)
        IN  /\ InOrder(decoding.tried, <<"unzip", "inflateRaw", "brotliDecompress">>)
            /\ InOrder(decoding.yielded, decoding.tried)
            /\ called("unzip") <=>
                    \/ "gzip" \in formats /\ Len(value) > 10 /\ value[1] = 31 /\ value[2] = 139
                    \/ "deflate" \in formats /\ Len(value) > 2
                            /\ (256 * value[1] + value[2]) % 31 = 0
            /\ IF yielded("unzip")
               THEN decoding.tried = <<"unzip">> /\ decoding.yielded = <<"unzip">>
               ELSE /\ called("inflateRaw") <=>
                            /\ "deflate-raw" \in formats
                            /\ Len(value) >= 1
                            /\ value[1] % 8 \notin {6, 7}
                    /\ called("brotliDecompress") <=> "brotli" \in formats

\* unzip was called and failed, and the outputs of inflateRaw and of
\* brotliDecompress were both yielded
C26_Witness ==
    /\ decoding.pc = "done"
    /\ decoding.formats = Formats
    /\ decoding.tried = <<"unzip", "inflateRaw", "brotliDecompress">>
    /\ decoding.yielded = <<"inflateRaw", "brotliDecompress">>

\* C26, as stated, for the default formats and a value of more than 10
\* bytes: unzip is tried when the value starts with 0x1f8b or its header is
\* divisible by 31, and its output alone is yielded on success; else
\* inflateRaw is tried if the low three bits of the first byte are not
\* 0b110; brotliDecompress is tried only when inflateRaw was not
C26_AsStated ==
    (decoding.pc = "done" /\ decoding.formats = Formats /\ Len(decoding.value) > 10) =>
        LET value == decoding.value
            called(fn)  == fn \in Range(decoding.tried)
            yielded(fn) == fn \in Range(decoding.yielded)
        IN  /\ called("unzip") <=>
                    \/ value[1] = 31 /\ value[2] = 139
                    \/ (256 * value[1] + value[2]) % 31 = 0
            /\ IF yielded("unzip")
               THEN decoding.yielded = <<"unzip">>
               ELSE /\ called("inflateRaw") <=> value[1] % 8 # 6
                    /\ called("brotliDecompress") <=> ~called("inflateRaw")

\* the buffers that the calls made so far are to leave on the needle list:
\* their values and the encodings of these that they are to make findable
BuffersOfCalls ==
    {addCalls[k].value : k \in 1..Len(addCalls)}
    \cup UNION {FormsOfCall(addCalls[k]) : k \in 1..Len(addCalls)}

\* C27: once the addValue calls that fromValues started together are done,
\* in whatever order their #addEncodings resumed, the set of needle buffers,
\* the fingerprint set, the values and minNeedleLength are what the calls
\* determine, the same as when the calls are awaited one after another
C27_OrderIndependent ==
    addTasks = {} =>
        /\ {needles[i].buffer : i \in 1..Len(needles)} = BuffersOfCalls
        /\ needleChecksums = {crc32(buffer) : buffer \in BuffersOfCalls}
        /\ Range(values) = {addCalls[k].value : k \in 1..Len(addCalls)}
        /\ valueChecksums = {crc32(addCalls[k].value) : k \in 1..Len(addCalls)}
        /\ \A buffer \in BuffersOfCalls : minNeedleLength <= Len(buffer)
        /\ addCalls # <<>> => \E buffer \in BuffersOfCalls : minNeedleLength = Len(buffer)
        /\ \A i, j \in 1..Len(needles) : i # j => needles[i].buffer # needles[j].buffer
        /\ \A i, j \in 1..Len(values) : i # j => values[i] # values[j]

\* fromValues was called with two values and the calls are done; on the
\* needle list an encoding made by the second call stands before one made
\* by the first, which calls awaited one after another never produce
C27_Witness ==
    /\ addTasks = {}
    /\ Len(addCalls) = 2
    /\ addCalls[1].value # addCalls[2].value
    /\ needles[2].buffer = addCalls[2].value
    /\ \E i, j \in 3..Len(needles) :
            /\ i < j
            /\ needles[i].buffer \in FormsOfCall(addCalls[2])
            /\ needles[j].buffer \in FormsOfCall(addCalls[1])

\* the encodings of the needle that a resumed #addEncodings is to see on
\* the needle list when it has run: those of the encoders of its layer,
\* the reversible ones left out when the call ends with a non-reversible
\* layer
DueEncodings(task) ==
    LET call == addCalls[task.call]
        used == LayerEncoders(call.encoders, call.endWithNonReversibleLayer,
                              task.maxExtraLayers)
    IN  UNION {Range(encodings(used[i], task.needle.buffer)) :
                i \in {j \in 1..Len(used) :
                          ~(call.endWithNonReversibleLayer /\ HasExtractDecode(used[j]))}}

\* once a call has settled, every encoding of its value by up to
\* maxEncodeLayers of its encoders, the outermost non-reversible when the
\* call ends with a non-reversible layer, is the buffer of a needle
C28_AllForms ==
    addTasks = {} =>
        \A k \in 1..Len(addCalls) : \A b \in FormsOfCall(addCalls[k]) : IsNeedleBuffer(b)

\* a resumed #addEncodings leaves every due encoding of its needle on the
\* needle list, whether or not the layer map admitted it; an encoding that
\* the map did not admit is recorded there at the layer of the task or
\* above, and with layers left every admitted one gets its #addEncodings
C28_NoneLeftOut ==
    (addCalls' = addCalls /\ addTasks' # addTasks) =>
        \A task \in addTasks \ addTasks' :
            LET call == addCalls[task.call]
                used == LayerEncoders(call.encoders, call.endWithNonReversibleLayer,
                                      task.maxExtraLayers)
                old  == addedNeedleChecksums[task.call]
                new  == addedNeedleChecksums'[task.call]
            IN  /\ \A b \in DueEncodings(task) :
                        \E i \in 1..Len(needles') : needles'[i].buffer = b
                /\ \A i \in 1..Len(used) : \A b \in Range(encodings(used[i], task.needle.buffer)) :
                        /\ LayerOf(new, crc32(b)) >= task.maxExtraLayers
                        /\ (LayerOf(old, crc32(b)) < task.maxExtraLayers
                             /\ task.maxExtraLayers > 0) =>
                                \E child \in addTasks' \ addTasks :
                                    /\ child.needle.buffer = b
                                    /\ child.maxExtraLayers = task.maxExtraLayers - 1

C29_NeverDecreases ==
    \A cid \in 1..Len(finds) :
        LET old == finds[cid].haystackChecksums
            new == finds'[cid].haystackChecksums
        IN  Len(finds') >= cid /\ \A fp \in DOMAIN old : LayerOf(new, fp) >= old[fp]

\* for every fingerprint and layer, one recursive search at most was
\* started by the decoder branches of a call
C29_OncePerLayer ==
    \A cid \in 1..Len(finds) : \A key \in DOMAIN finds[cid].started :
        /\ finds[cid].started[key] <= 1
        /\ LayerOf(finds[cid].haystackChecksums, key[1]) >= key[2]

\* C29: within one findValueIn call the layer recorded for a fingerprint
\* never decreases, and for each fingerprint and each layer at most one
\* recursive search of a buffer with that fingerprint is started at that
\* layer, in whatever order the decoder branches sharing the map resume
C29_Monotone == [][C29_NeverDecreases]_vars /\ []C29_OncePerLayer

\* a call with two layers whose map decoder gives back the haystack has run
\* all its branches: the haystack was searched again once, at layer 2, and
\* not when the branch at layer 1 decoded it once more
C29_Witness ==
    \E cid \in 1..Len(finds) :
        LET f  == finds[cid]
            fp == crc32(f.haystack)
        IN  /\ f.pending = {}
            /\ f.maxDecodeLayers = 2
            /\ "map" \in Range(f.decoders)
            /\ MapExtractDecode(f.haystack) = <<f.haystack>>
            /\ LayerOf(f.haystackChecksums, fp) = 2
            /\ StartedAt(f.started, fp, 2) = 1
            /\ StartedAt(f.started, fp, 1) = 0

\* the arrow function of task i returns in this step
Returns(i) == race.tasks[i].pc # "done" /\ race'.tasks[i].pc = "done"

\* what the arrow function of task i calls on its way out: reject with the
\* failure, resolve with a satisfying result, or nothing
Decides(i) ==
    race.tasks[i].state = "rejected" \/ condition(race.tasks[i].result)

\* while the race is pending no arrow function has returned from a failure
\* or a satisfying result
C30_NoneBefore ==
    race.outcome = <<"pending">> =>
        \A i \in 1..Len(race.tasks) : race.tasks[i].pc = "done" => ~Decides(i)

\* a pending race is settled by the arrow function that returns from a
\* failure or a satisfying result, with that outcome, and by the
\* all-settled callback with undefined; no other step and no step of a
\* settled race touches the outcome
C30_SettlesOnce ==
    race # NoRace =>
        /\ Len(race'.tasks) = Len(race.tasks)
        /\ IF race.outcome # <<"pending">> THEN race'.outcome = race.outcome
           ELSE IF \E i \in 1..Len(race.tasks) : Returns(i) /\ Decides(i)
           THEN \E i \in 1..Len(race.tasks) :
                    /\ Returns(i)
                    /\ race'.outcome = <<(IF race.tasks[i].state = "rejected"
                                          THEN "rejected" ELSE "resolved"),
                                         race.tasks[i].result>>
           ELSE IF race'.allSettled /\ ~race.allSettled
           THEN race'.outcome = <<"resolved", "undefined">>
           ELSE race'.outcome = <<"pending">>

\* task i of the race has a settled promise
Ready(i) == i <= Len(race.tasks) /\ race.tasks[i].state # "pending"

\* task i of the race has run to its end
Returned(i) == i <= Len(race.tasks) /\ race.tasks[i].pc = "done"

\* every arrow function whose promise has settled returns in the end,
\* whatever the outcome of the race, and the all-settled callback runs once
\* all have returned
C30_RunToCompletion ==
    /\ \A i \in 1..MaxRaceTasks : Ready(i) ~> Returned(i)
    /\ (race # NoRace /\ AllReturned(race.tasks)) ~> race.allSettled

\* C30: the promise returned by raceWithCondition is settled by the first
\* task, in completion order, that yields a result satisfying the condition
\* or fails; every later task outcome and the all-settled callback leave
\* the settled outcome unchanged, while the losing tasks still run to
\* completion
C30_SettledOnce == []C30_NoneBefore /\ [][C30_SettlesOnce]_vars /\ C30_RunToCompletion

\* the race was settled with the result "a"; a failed task and a task with
\* the result "b" have returned since, and the all-settled callback has run
C30_Witness ==
    /\ Len(race.tasks) = 3
    /\ race.outcome = <<"resolved", "a">>
    /\ race.allSettled
    /\ \E i, j \in 1..3 : /\ Returned(i) /\ race.tasks[i].state = "rejected"
                           /\ Returned(j) /\ race.tasks[j].result = "b"

====
